---- MODULE Spec2Model ----
(***************************************************************************)
(* The Jah-conscious ARK engine: the controller's history store and        *)
(* daily-practice cache, the request handlers that reach them, the ritual  *)
(* dispatcher and the relevance matcher.                                   *)
(*                                                                         *)
(* Python str values are sequences of one-character strings, so that       *)
(* lower(), split(), the substring test `in' and f-string formatting are   *)
(* computed as the code computes them.  A dict is a function on its keys;  *)
(* a float that the code obtains by one division is the pair num/den.      *)
(***************************************************************************)
EXTENDS Integers, Sequences, FiniteSets, TLC

VARIABLES
    now,              \* the wall clock, in ticks
    ctrls,            \* the JahConsciousARKController objects constructed so far
    tasks,            \* the coroutines in flight, each at a suspension point
    seeks_completed,  \* per controller: seek_divine_coding_guidance calls that returned
    practice_runs,    \* per controller and date: perform_daily_practice executions
    report_log,       \* the report the program last took, until the next seek call
    requests_served,  \* requests answered by this process that sought guidance
    request_report,   \* the last /divine-insights response, with its circumstances
    pin,              \* the arguments a pure function is applied to
    pout              \* its result

vars == <<now, ctrls, tasks, seeks_completed, practice_runs, report_log,
          requests_served, request_report, pin, pout>>

(***************************************************************************)
(* Python values                                                           *)
(***************************************************************************)

\* None, for an Optional mapping or record
None == [is_none |-> TRUE]

\* the empty dict {}
EmptyDict == <<>>

\* dict.get(key, default)
Get(d, key, default) == IF key \in DOMAIN d THEN d[key] ELSE default

\* Python truthiness of an Optional dict: None and {} are falsy
Truthy(d) == d # None /\ DOMAIN d # {}

\* d with d[key] = value assigned
DictSet(d, key, value) == [k \in DOMAIN d \cup {key} |-> IF k = key THEN value ELSE d[k]]

\* the float num / den
Frac(n, d) == [num |-> n, den |-> d]

\* a < b, a <= b and a = b on floats
FracLt(a, b) == a.num * b.den < b.num * a.den

FracLe(a, b) == a.num * b.den <= b.num * a.den

FracEq(a, b) == a.num * b.den = b.num * a.den

(***************************************************************************)
(* str                                                                     *)
(***************************************************************************)

UpperCase == <<"A","B","C","D","E","F","G","H","I","J","K","L","M","N","O","P","Q","R","S","T","U","V","W","X","Y","Z">>

LowerCase == <<"a","b","c","d","e","f","g","h","i","j","k","l","m","n","o","p","q","r","s","t","u","v","w","x","y","z">>

\* str.lower() of one character
ToLower == [ch \in {UpperCase[i] : i \in 1..26} |->
               LowerCase[CHOOSE i \in 1..26 : UpperCase[i] = ch]]

LowerChar(ch) == IF ch \in DOMAIN ToLower THEN ToLower[ch] ELSE ch

\* str.lower()
Lower(s) == [i \in 1..Len(s) |-> LowerChar(s[i])]

\* the characters str.split() splits on
Whitespace == {" ", "\t", "\n", "\r"}

\* sub in s
Contains(sub, s) ==
    \E i \in 0..(Len(s) - Len(sub)) : \A j \in 1..Len(sub) : s[i + j] = sub[j]

\* s.startswith(prefix)
StartsWith(s, prefix) ==
    Len(prefix) <= Len(s) /\ SubSeq(s, 1, Len(prefix)) = prefix

\* str.split(): the maximal runs of non-whitespace characters, in order
RECURSIVE SplitFrom(_, _, _)
SplitFrom(s, i, word) ==
    IF i > Len(s)
    THEN IF word = <<>> THEN <<>> ELSE <<word>>
    ELSE IF s[i] \in Whitespace
         THEN IF word = <<>>
              THEN SplitFrom(s, i + 1, <<>>)
              ELSE <<word>> \o SplitFrom(s, i + 1, <<>>)
         ELSE SplitFrom(s, i + 1, Append(word, s[i]))

Split(s) == SplitFrom(s, 1, <<>>)

\* s[:n]
Prefix(s, n) == SubSeq(s, 1, IF Len(s) < n THEN Len(s) ELSE n)


(***************************************************************************)
(* ScripturalWisdom                                                        *)
(***************************************************************************)

\* self.wisdom_database, flattened in the iteration order of the two loops
wisdom_database ==
  <<
    [book |-> "Psalms", wisdom |->
        <<"T","h","e"," ","E","a","r","t","h"," ","i","s"," ","J","a","h","'","s"," ","a","n","d"," ","t","h","e"," ","f","u","l","l","n","e","s","s"," ","t","h","e","r","e","o","f">>],
    [book |-> "Psalms", wisdom |->
        <<"B","l","e","s","s","e","d"," ","i","s"," ","t","h","e"," ","m","a","n"," ","t","h","a","t"," ","w","a","l","k","e","t","h"," ","n","o","t"," ","i","n"," ","t","h","e"," ","c","o","u","n","s","e","l"," ","o","f"," ","t","h","e"," ","u","n","g","o","d","l","y">>],
    [book |-> "Psalms", wisdom |->
        <<"H","e"," ","t","h","a","t"," ","d","w","e","l","l","e","t","h"," ","i","n"," ","t","h","e"," ","s","e","c","r","e","t"," ","p","l","a","c","e"," ","o","f"," ","t","h","e"," ","m","o","s","t"," ","H","i","g","h">>],
    [book |-> "Psalms", wisdom |->
        <<"T","h","e"," ","L","o","r","d"," ","i","s"," ","m","y"," ","s","h","e","p","h","e","r","d",";"," ","I"," ","s","h","a","l","l"," ","n","o","t"," ","w","a","n","t">>],
    [book |-> "Psalms", wisdom |->
        <<"C","r","e","a","t","e"," ","i","n"," ","m","e"," ","a"," ","c","l","e","a","n"," ","h","e","a","r","t",","," ","O"," ","G","o","d">>],
    [book |-> "Proverbs", wisdom |->
        <<"T","h","e"," ","f","e","a","r"," ","o","f"," ","t","h","e"," ","L","o","r","d"," ","i","s"," ","t","h","e"," ","b","e","g","i","n","n","i","n","g"," ","o","f"," ","w","i","s","d","o","m">>],
    [book |-> "Proverbs", wisdom |->
        <<"T","r","u","s","t"," ","i","n"," ","t","h","e"," ","L","o","r","d"," ","w","i","t","h"," ","a","l","l"," ","t","h","i","n","e"," ","h","e","a","r","t">>],
    [book |-> "Proverbs", wisdom |->
        <<"W","i","s","d","o","m"," ","i","s"," ","t","h","e"," ","p","r","i","n","c","i","p","a","l"," ","t","h","i","n","g",";"," ","t","h","e","r","e","f","o","r","e"," ","g","e","t"," ","w","i","s","d","o","m">>],
    [book |-> "Proverbs", wisdom |->
        <<"A"," ","s","o","f","t"," ","a","n","s","w","e","r"," ","t","u","r","n","e","t","h"," ","a","w","a","y"," ","w","r","a","t","h">>],
    [book |-> "Proverbs", wisdom |->
        <<"W","h","e","r","e"," ","t","h","e","r","e"," ","i","s"," ","n","o"," ","v","i","s","i","o","n",","," ","t","h","e"," ","p","e","o","p","l","e"," ","p","e","r","i","s","h">>],
    [book |-> "Ecclesiastes", wisdom |->
        <<"T","o"," ","e","v","e","r","y"," ","t","h","i","n","g"," ","t","h","e","r","e"," ","i","s"," ","a"," ","s","e","a","s","o","n">>],
    [book |-> "Ecclesiastes", wisdom |->
        <<"V","a","n","i","t","y"," ","o","f"," ","v","a","n","i","t","i","e","s",","," ","s","a","i","t","h"," ","t","h","e"," ","P","r","e","a","c","h","e","r">>],
    [book |-> "Ecclesiastes", wisdom |->
        <<"T","h","e"," ","s","u","n"," ","a","l","s","o"," ","a","r","i","s","e","t","h",","," ","a","n","d"," ","t","h","e"," ","s","u","n"," ","g","o","e","t","h"," ","d","o","w","n">>],
    [book |-> "Ecclesiastes", wisdom |->
        <<"T","w","o"," ","a","r","e"," ","b","e","t","t","e","r"," ","t","h","a","n"," ","o","n","e">>],
    [book |-> "Ecclesiastes", wisdom |->
        <<"R","e","m","e","m","b","e","r"," ","n","o","w"," ","t","h","y"," ","C","r","e","a","t","o","r"," ","i","n"," ","t","h","e"," ","d","a","y","s"," ","o","f"," ","t","h","y"," ","y","o","u","t","h">>],
    [book |-> "Isaiah", wisdom |->
        <<"T","h","e","y"," ","t","h","a","t"," ","w","a","i","t"," ","u","p","o","n"," ","t","h","e"," ","L","o","r","d"," ","s","h","a","l","l"," ","r","e","n","e","w"," ","t","h","e","i","r"," ","s","t","r","e","n","g","t","h">>],
    [book |-> "Isaiah", wisdom |->
        <<"T","h","e"," ","w","o","l","f"," ","a","l","s","o"," ","s","h","a","l","l"," ","d","w","e","l","l"," ","w","i","t","h"," ","t","h","e"," ","l","a","m","b">>],
    [book |-> "Isaiah", wisdom |->
        <<"H","o","w"," ","b","e","a","u","t","i","f","u","l"," ","u","p","o","n"," ","t","h","e"," ","m","o","u","n","t","a","i","n","s"," ","a","r","e"," ","t","h","e"," ","f","e","e","t"," ","o","f"," ","h","i","m">>],
    [book |-> "Isaiah", wisdom |->
        <<"F","o","r"," ","m","y"," ","t","h","o","u","g","h","t","s"," ","a","r","e"," ","n","o","t"," ","y","o","u","r"," ","t","h","o","u","g","h","t","s">>],
    [book |-> "Isaiah", wisdom |->
        <<"C","o","m","f","o","r","t"," ","y","e",","," ","c","o","m","f","o","r","t"," ","y","e"," ","m","y"," ","p","e","o","p","l","e">>],
    [book |-> "Rasta_Wisdom", wisdom |->
        <<"J","a","h"," ","l","i","v","e"," ","i","n","n","a"," ","I"," ","a","n","d"," ","I">>],
    [book |-> "Rasta_Wisdom", wisdom |->
        <<"L","o","v","e"," ","a","n","d"," ","u","n","i","t","y"," ","i","s"," ","t","h","e"," ","k","e","y">>],
    [book |-> "Rasta_Wisdom", wisdom |->
        <<"G","i","v","e"," ","t","h","a","n","k","s"," ","a","n","d"," ","p","r","a","i","s","e"," ","t","o"," ","t","h","e"," ","M","o","s","t"," ","H","i","g","h">>],
    [book |-> "Rasta_Wisdom", wisdom |->
        <<"I","n","i","t","y",","," ","n","o","t"," ","v","a","n","i","t","y">>],
    [book |-> "Rasta_Wisdom", wisdom |->
        <<"O","v","e","r","s","t","a","n","d",","," ","d","o","n","'","t"," ","j","u","s","t"," ","u","n","d","e","r","s","t","a","n","d">>],
    [book |-> "Rasta_Wisdom", wisdom |->
        <<"L","i","v","i","t","y"," ","i","s"," ","t","h","e"," ","w","a","y"," ","o","f"," ","l","i","f","e">>],
    [book |-> "Rasta_Wisdom", wisdom |->
        <<"I","t","a","l"," ","i","s"," ","v","i","t","a","l">>],
    [book |-> "Rasta_Wisdom", wisdom |->
        <<"N","o"," ","h","u","r","t",","," ","n","o"," ","h","a","r","m"," ","i","n"," ","t","h","e"," ","h","e","a","r","t">>],
    [book |-> "Rasta_Wisdom", wisdom |->
        <<"P","e","a","c","e"," ","a","n","d"," ","l","o","v","e"," ","w","i","t","h","i","n"," ","t","h","e"," ","c","o","m","m","u","n","i","t","y">>],
    [book |-> "Rasta_Wisdom", wisdom |->
        <<"R","e","s","p","e","c","t"," ","f","o","r"," ","a","l","l"," ","o","f"," ","J","a","h"," ","c","r","e","a","t","i","o","n">>]
  >>

\* self.coding_application
coding_application ==
  <<
    [wisdom |->
        <<"T","h","e"," ","E","a","r","t","h"," ","i","s"," ","J","a","h","'","s"," ","a","n","d"," ","t","h","e"," ","f","u","l","l","n","e","s","s"," ","t","h","e","r","e","o","f">>,
     application |->
        <<"C","o","d","e"," ","s","h","o","u","l","d"," ","r","e","s","p","e","c","t"," ","n","a","t","u","r","a","l"," ","s","y","s","t","e","m","s"," ","a","n","d"," ","e","n","v","i","r","o","n","m","e","n","t","a","l"," ","i","m","p","a","c","t">>],
    [wisdom |->
        <<"T","h","e"," ","f","e","a","r"," ","o","f"," ","t","h","e"," ","L","o","r","d"," ","i","s"," ","t","h","e"," ","b","e","g","i","n","n","i","n","g"," ","o","f"," ","w","i","s","d","o","m">>,
     application |->
        <<"H","u","m","i","l","i","t","y"," ","b","e","f","o","r","e"," ","c","o","m","p","l","e","x","i","t","y"," ","b","r","i","n","g","s"," ","t","r","u","e"," ","u","n","d","e","r","s","t","a","n","d","i","n","g">>],
    [wisdom |->
        <<"T","o"," ","e","v","e","r","y"," ","t","h","i","n","g"," ","t","h","e","r","e"," ","i","s"," ","a"," ","s","e","a","s","o","n">>,
     application |->
        <<"C","h","o","o","s","e"," ","t","h","e"," ","r","i","g","h","t"," ","t","e","c","h","n","o","l","o","g","y"," ","f","o","r"," ","t","h","e"," ","r","i","g","h","t"," ","t","i","m","e">>],
    [wisdom |->
        <<"T","h","e","y"," ","t","h","a","t"," ","w","a","i","t"," ","u","p","o","n"," ","t","h","e"," ","L","o","r","d"," ","s","h","a","l","l"," ","r","e","n","e","w"," ","t","h","e","i","r"," ","s","t","r","e","n","g","t","h">>,
     application |->
        <<"P","a","t","i","e","n","c","e"," ","i","n"," ","d","e","b","u","g","g","i","n","g"," ","l","e","a","d","s"," ","t","o"," ","b","e","t","t","e","r"," ","s","o","l","u","t","i","o","n","s">>],
    [wisdom |->
        <<"J","a","h"," ","l","i","v","e"," ","i","n","n","a"," ","I"," ","a","n","d"," ","I">>,
     application |->
        <<"D","i","v","i","n","e"," ","w","i","s","d","o","m"," ","e","x","i","s","t","s"," ","w","i","t","h","i","n"," ","e","v","e","r","y"," ","p","r","o","g","r","a","m","m","e","r">>],
    [wisdom |->
        <<"L","o","v","e"," ","a","n","d"," ","u","n","i","t","y"," ","i","s"," ","t","h","e"," ","k","e","y">>,
     application |->
        <<"C","o","l","l","a","b","o","r","a","t","i","v","e"," ","c","o","d","i","n","g"," ","c","r","e","a","t","e","s"," ","b","e","t","t","e","r"," ","s","y","s","t","e","m","s">>],
    [wisdom |->
        <<"O","v","e","r","s","t","a","n","d",","," ","d","o","n","'","t"," ","j","u","s","t"," ","u","n","d","e","r","s","t","a","n","d">>,
     application |->
        <<"D","e","e","p"," ","c","o","m","p","r","e","h","e","n","s","i","o","n"," ","b","e","y","o","n","d"," ","s","u","r","f","a","c","e"," ","k","n","o","w","l","e","d","g","e">>],
    [wisdom |->
        <<"I","t","a","l"," ","i","s"," ","v","i","t","a","l">>,
     application |->
        <<"C","l","e","a","n",","," ","n","a","t","u","r","a","l"," ","c","o","d","e"," ","i","s"," ","e","s","s","e","n","t","i","a","l"," ","f","o","r"," ","h","e","a","l","t","h">>],
    [wisdom |->
        <<"N","o"," ","h","u","r","t",","," ","n","o"," ","h","a","r","m"," ","i","n"," ","t","h","e"," ","h","e","a","r","t">>,
     application |->
        <<"C","o","d","e"," ","s","h","o","u","l","d"," ","n","o","t"," ","c","a","u","s","e"," ","h","a","r","m"," ","t","o"," ","u","s","e","r","s">>],
    [wisdom |->
        <<"R","e","s","p","e","c","t"," ","f","o","r"," ","a","l","l"," ","o","f"," ","J","a","h"," ","c","r","e","a","t","i","o","n">>,
     application |->
        <<"I","n","c","l","u","s","i","v","e"," ","d","e","s","i","g","n"," ","f","o","r"," ","a","l","l"," ","p","e","o","p","l","e">>]
  >>

\* the default of coding_application.get
ApplyDivineWisdom ==
    <<"A","p","p","l","y"," ","d","i","v","i","n","e"," ","w","i","s","d","o","m">>

\* wisdom.lower() of every corpus entry
wisdom_lower == [i \in 1..Len(wisdom_database) |-> Lower(wisdom_database[i].wisdom)]

\* ScripturalWisdom._calculate_relevance: matches / len(keywords), 0.0 without keywords
RECURSIVE CountMatches(_, _)
CountMatches(text, keywords) ==
    IF keywords = <<>> THEN 0
    ELSE (IF Contains(Head(keywords), text) THEN 1 ELSE 0)
         + CountMatches(text, Tail(keywords))

_calculate_relevance(wisdom_lowered, keywords) ==
    IF keywords # <<>>
    THEN Frac(CountMatches(wisdom_lowered, keywords), Len(keywords))
    ELSE Frac(0, 1)

\* self.coding_application.get(wisdom, "Apply divine wisdom")
ApplicationOf(wisdom) ==
    IF \E i \in 1..Len(coding_application) : coding_application[i].wisdom = wisdom
    THEN coding_application[CHOOSE i \in 1..Len(coding_application) :
                                coding_application[i].wisdom = wisdom].application
    ELSE ApplyDivineWisdom

\* AnyKeywordIn_all is the loop without the test of line 162: every entry
\* is taken.
AnyKeywordIn_all(wisdom_lowered, keywords) == TRUE

\* the test of line 162: any(keyword in wisdom.lower() for keyword in keywords)
AnyKeywordIn(wisdom_lowered, keywords) ==
    \E k \in 1..Len(keywords) : Contains(keywords[k], wisdom_lowered)

\* the loops of get_wisdom_for_situation: the entries that pass the test, in
\* corpus order, each with its application and relevance_score
RECURSIVE RelevantFrom(_, _)
RelevantFrom(i, keywords) ==
    IF i > Len(wisdom_database) THEN <<>>
    ELSE (IF AnyKeywordIn(wisdom_lower[i], keywords)
          THEN << [wisdom |-> wisdom_database[i].wisdom,
                   book |-> wisdom_database[i].book,
                   application |-> ApplicationOf(wisdom_database[i].wisdom),
                   relevance_score |->
                       _calculate_relevance(wisdom_lower[i], keywords)] >>
          ELSE <<>>)
         \o RelevantFrom(i + 1, keywords)

\* relevant.sort(key=relevance_score, reverse=True): stable, so an entry goes
\* after the entries whose score is not smaller
RECURSIVE InsertByRelevance(_, _)
InsertByRelevance(sorted, x) ==
    IF sorted = <<>> THEN <<x>>
    ELSE IF FracLt(Head(sorted).relevance_score, x.relevance_score)
         THEN <<x>> \o sorted
         ELSE <<Head(sorted)>> \o InsertByRelevance(Tail(sorted), x)

\* SortByRelevance_none is the list left in corpus order, without line 176.
SortByRelevance_none(xs) == xs

RECURSIVE SortByRelevance(_)
SortByRelevance(xs) ==
    IF xs = <<>> THEN <<>>
    ELSE InsertByRelevance(SortByRelevance(SubSeq(xs, 1, Len(xs) - 1)), xs[Len(xs)])

\* ScripturalWisdom.get_wisdom_for_situation (the constant "blessing" and
\* "meditation" texts of the result are left out)
TopThree(relevant) == IF relevant # <<>> THEN Prefix(relevant, 3) ELSE <<>>

get_wisdom_for_situation(situation) ==
    [situation |-> situation,
     guidance |-> TopThree(SortByRelevance(RelevantFrom(1, Split(Lower(situation)))))]

(***************************************************************************)
(* datetime                                                                *)
(***************************************************************************)

\* The last tick of the wall clock.
MaxTime == 2

\* The wall-clock times the model samples in each day: a tick is one of
\* these instants, in order, day after day.  03:11 is a sacred hour and a
\* master-number minute, 14:30 is neither.
TickTimes == << [hour |-> 3, minute |-> 11], [hour |-> 14, minute |-> 30] >>

TicksPerDay == Len(TickTimes)

Ticks == 0..MaxTime

\* datetime.now() at tick t; day 0 is Monday 2024-01-01
DateTime(t) ==
    [day |-> t \div TicksPerDay,
     hour |-> TickTimes[(t % TicksPerDay) + 1].hour,
     minute |-> TickTimes[(t % TicksPerDay) + 1].minute]

Digits == <<"0","1","2","3","4","5","6","7","8","9">>

\* the format of a field of width 2: {n:02d}
TwoDigits(n) == <<Digits[((n \div 10) % 10) + 1], Digits[(n % 10) + 1]>>

\* str(n) of a natural number
RECURSIVE IntToStr(_)
IntToStr(n) == IF n < 10 THEN <<Digits[n + 1]>>
               ELSE IntToStr(n \div 10) \o <<Digits[(n % 10) + 1]>>

\* date.isoformat(): YYYY-MM-DD
DateIso(dt) == <<"2","0","2","4","-","0","1","-">> \o TwoDigits(dt.day + 1)

\* datetime.isoformat(): YYYY-MM-DDTHH:MM:SS
DateTimeIso(dt) ==
    DateIso(dt) \o <<"T">> \o TwoDigits(dt.hour) \o <<":">> \o TwoDigits(dt.minute) \o <<":","0","0">>

WeekdayNames ==
    << <<"M","o","n","d","a","y">>,
       <<"T","u","e","s","d","a","y">>,
       <<"W","e","d","n","e","s","d","a","y">>,
       <<"T","h","u","r","s","d","a","y">>,
       <<"F","r","i","d","a","y">>,
       <<"S","a","t","u","r","d","a","y">>,
       <<"S","u","n","d","a","y">> >>

\* datetime.strftime('%A')
Weekday(dt) == WeekdayNames[(dt.day % 7) + 1]

(***************************************************************************)
(* SacredCodingRitual                                                      *)
(***************************************************************************)

\* " | ".join(meanings)
RECURSIVE Join(_, _)
Join(sep, parts) ==
    IF parts = <<>> THEN <<>>
    ELSE IF Len(parts) = 1 THEN parts[1]
    ELSE parts[1] \o sep \o Join(sep, Tail(parts))

\* SacredCodingRitual._interpret_sacred_time
HourMeanings(hour) ==
    CASE hour = 3 -> << <<"H","o","u","r"," ","o","f"," ","s","p","i","r","i","t","u","a","l"," ","a","w","a","k","e","n","i","n","g">> >>
      [] hour = 6 -> << <<"H","o","u","r"," ","o","f"," ","n","e","w"," ","b","e","g","i","n","n","i","n","g","s">> >>
      [] hour = 9 -> << <<"H","o","u","r"," ","o","f"," ","c","o","m","p","l","e","t","i","o","n">> >>
      [] hour = 12 -> << <<"H","o","u","r"," ","o","f"," ","d","i","v","i","n","e"," ","c","l","a","r","i","t","y">> >>
      [] hour = 15 -> << <<"H","o","u","r"," ","o","f"," ","t","r","a","n","s","f","o","r","m","a","t","i","o","n">> >>
      [] hour = 18 -> << <<"H","o","u","r"," ","o","f"," ","r","e","f","l","e","c","t","i","o","n">> >>
      [] hour = 21 -> << <<"H","o","u","r"," ","o","f"," ","i","n","s","p","i","r","a","t","i","o","n">> >>
      [] hour = 0 -> << <<"H","o","u","r"," ","o","f"," ","r","e","n","e","w","a","l">> >>
      [] OTHER -> <<>>

MinuteMeanings(minute) ==
    CASE minute = 11 -> << <<"M","a","s","t","e","r"," ","n","u","m","b","e","r"," ","1","1",":"," ","S","p","i","r","i","t","u","a","l"," ","i","n","s","i","g","h","t">> >>
      [] minute = 22 -> << <<"M","a","s","t","e","r"," ","n","u","m","b","e","r"," ","2","2",":"," ","M","a","s","t","e","r"," ","b","u","i","l","d","e","r"," ","e","n","e","r","g","y">> >>
      [] minute = 33 -> << <<"M","a","s","t","e","r"," ","n","u","m","b","e","r"," ","3","3",":"," ","C","h","r","i","s","t"," ","c","o","n","s","c","i","o","u","s","n","e","s","s">> >>
      [] OTHER -> <<>>

_interpret_sacred_time(time) ==
    IF HourMeanings(time.hour) \o MinuteMeanings(time.minute) # <<>>
    THEN Join(<<" ","|"," ">>, HourMeanings(time.hour) \o MinuteMeanings(time.minute))
    ELSE <<"D","i","v","i","n","e"," ","m","o","m","e","n","t"," ","f","o","r"," ","c","r","e","a","t","i","o","n">>

\* The five ritual functions.  Each returns its record; the texts that do not
\* depend on the context or the clock (prayer, affirmations, instructions,
\* gestures, ...) are left out, and of an f-string the line that holds the
\* interpolated value is kept.
_morning_dedication(context, t) ==
    [ritual |-> <<"m","o","r","n","i","n","g","_","d","e","d","i","c","a","t","i","o","n">>,
     time |-> DateTimeIso(DateTime(t)),
     sacred_numbers |-> [hour |-> DateTime(t).hour,
                         minute |-> DateTime(t).minute,
                         meaning |-> _interpret_sacred_time(DateTime(t))]]

_code_blessing(context, t) ==
    [ritual |-> <<"c","o","d","e","_","b","l","e","s","s","i","n","g">>,
     module |-> Get(context, "module_name", <<"u","n","k","n","o","w","n">>),
     blessing_prayer |->
         <<"J","a","h"," ","b","l","e","s","s"," ","t","h","i","s"," ","c","o","d","e"," ","m","o","d","u","l","e"," ","'">>
         \o Get(context, "module_name", <<"u","n","k","n","o","w","n">>) \o <<"'",".">>]

_debugging_meditation(context, t) ==
    [ritual |-> <<"d","e","b","u","g","g","i","n","g","_","m","e","d","i","t","a","t","i","o","n">>,
     issue |-> Get(context, "issue", <<"u","n","k","n","o","w","n"," ","p","r","o","b","l","e","m">>),
     meditation_guidance |->
         <<"S","e","e"," ","t","h","e"," ","p","r","o","b","l","e","m"," ","'">>
         \o Get(context, "issue", <<"u","n","k","n","o","w","n"," ","p","r","o","b","l","e","m">>)
         \o <<"'"," ","n","o","t"," ","a","s"," ","e","n","e","m","y",","," ","b","u","t"," ","a","s"," ","t","e","a","c","h","e","r",".">>]

_completion_thanksgiving(context, t) ==
    [ritual |-> <<"c","o","m","p","l","e","t","i","o","n","_","t","h","a","n","k","s","g","i","v","i","n","g">>,
     accomplishment |-> Get(context, "accomplishment", <<"c","o","d","i","n","g"," ","w","o","r","k">>),
     thanksgiving_prayer |->
         <<"F","o","r"," ","c","o","m","p","l","e","t","i","o","n"," ","o","f"," ","'">>
         \o Get(context, "accomplishment", <<"c","o","d","i","n","g"," ","w","o","r","k">>) \o <<"'",".">>]

_evening_reflection(context, t) ==
    [ritual |-> <<"e","v","e","n","i","n","g","_","r","e","f","l","e","c","t","i","o","n">>,
     time |-> DateTimeIso(DateTime(t))]

\* SacredCodingRitual.__init__: the keys of self.ritual_steps
ritual_steps ==
    { <<"m","o","r","n","i","n","g","_","d","e","d","i","c","a","t","i","o","n">>,
      <<"c","o","d","e","_","b","l","e","s","s","i","n","g">>,
      <<"d","e","b","u","g","g","i","n","g","_","m","e","d","i","t","a","t","i","o","n">>,
      <<"c","o","m","p","l","e","t","i","o","n","_","t","h","a","n","k","s","g","i","v","i","n","g">>,
      <<"e","v","e","n","i","n","g","_","r","e","f","l","e","c","t","i","o","n">> }

\* self.ritual_steps[ritual_name](context)
RitualFunc(ritual_name, context, t) ==
    CASE ritual_name = <<"m","o","r","n","i","n","g","_","d","e","d","i","c","a","t","i","o","n">> -> _morning_dedication(context, t)
      [] ritual_name = <<"c","o","d","e","_","b","l","e","s","s","i","n","g">> -> _code_blessing(context, t)
      [] ritual_name = <<"d","e","b","u","g","g","i","n","g","_","m","e","d","i","t","a","t","i","o","n">> -> _debugging_meditation(context, t)
      [] ritual_name = <<"c","o","m","p","l","e","t","i","o","n","_","t","h","a","n","k","s","g","i","v","i","n","g">> -> _completion_thanksgiving(context, t)
      [] ritual_name = <<"e","v","e","n","i","n","g","_","r","e","f","l","e","c","t","i","o","n">> -> _evening_reflection(context, t)

\* an exception that leaves the call
Raised(exception) == [raised |-> exception]

\* perform_ritual without the membership test of line 662: the lookup of an
\* unknown name raises
perform_ritual_unguarded(ritual_name, context, t) ==
    IF ritual_name \notin ritual_steps
    THEN Raised("KeyError")
    ELSE RitualFunc(ritual_name, IF Truthy(context) THEN context ELSE EmptyDict, t)

\* SacredCodingRitual.perform_ritual; t is the clock the ritual reads
perform_ritual(ritual_name, context, t) ==
    IF ritual_name \notin ritual_steps
    THEN [error |-> <<"U","n","k","n","o","w","n"," ","r","i","t","u","a","l",":"," ">> \o ritual_name]
    ELSE RitualFunc(ritual_name, IF Truthy(context) THEN context ELSE EmptyDict, t)

\* any(word in question_lower for word in words)
AnyWordIn(words, text) == \E i \in 1..Len(words) : Contains(words[i], text)

\* _select_ritual_for_question_unregistered is the fallback of line 139
\* naming a ritual that is not registered.
_select_ritual_for_question_unregistered(question) ==
    IF AnyWordIn(<< <<"m","o","r","n","i","n","g">>, <<"s","t","a","r","t">>, <<"b","e","g","i","n">>, <<"n","e","w">> >>, Lower(question))
    THEN <<"m","o","r","n","i","n","g","_","d","e","d","i","c","a","t","i","o","n">>
    ELSE <<"b","l","e","s","s","i","n","g">>

\* JahConsciousnessSystem._select_ritual_for_question
_select_ritual_for_question(question) ==
    IF AnyWordIn(<< <<"m","o","r","n","i","n","g">>, <<"s","t","a","r","t">>, <<"b","e","g","i","n">>, <<"n","e","w">> >>, Lower(question))
    THEN <<"m","o","r","n","i","n","g","_","d","e","d","i","c","a","t","i","o","n">>
    ELSE IF AnyWordIn(<< <<"b","l","e","s","s">>, <<"c","o","n","s","e","c","r","a","t","e">>, <<"d","e","d","i","c","a","t","e">> >>, Lower(question))
    THEN <<"c","o","d","e","_","b","l","e","s","s","i","n","g">>
    ELSE IF AnyWordIn(<< <<"p","r","o","b","l","e","m">>, <<"b","u","g">>, <<"e","r","r","o","r">>, <<"d","e","b","u","g">>, <<"f","i","x">> >>,
                      Lower(question))
    THEN <<"d","e","b","u","g","g","i","n","g","_","m","e","d","i","t","a","t","i","o","n">>
    ELSE IF AnyWordIn(<< <<"c","o","m","p","l","e","t","e">>, <<"f","i","n","i","s","h">>, <<"d","o","n","e">>, <<"a","c","c","o","m","p","l","i","s","h">> >>,
                      Lower(question))
    THEN <<"c","o","m","p","l","e","t","i","o","n","_","t","h","a","n","k","s","g","i","v","i","n","g">>
    ELSE IF AnyWordIn(<< <<"e","v","e","n","i","n","g">>, <<"e","n","d">>, <<"r","e","f","l","e","c","t">>, <<"r","e","v","i","e","w">> >>,
                      Lower(question))
    THEN <<"e","v","e","n","i","n","g","_","r","e","f","l","e","c","t","i","o","n">>
    ELSE <<"c","o","d","e","_","b","l","e","s","s","i","n","g">>

\* the "ritual" of the result of seek_divine_guidance (__init__.py lines 63,
\* 74-75 and 80): code_context or {} goes to the ritual selected
SelectedRitual(question, code_context, t) ==
    perform_ritual(_select_ritual_for_question(question),
                   IF Truthy(code_context) THEN code_context ELSE EmptyDict, t)

(***************************************************************************)
(* MysticalCodeOracle                                                      *)
(***************************************************************************)

\* principle_mapping of _extract_principles, in its iteration order
principle_mapping ==
    << [keyword |-> <<"o","r","d","e","r">>, principle |-> "divine_order"],
       [keyword |-> <<"w","i","s","d","o","m">>, principle |-> "infinite_wisdom"],
       [keyword |-> <<"l","o","v","e">>, principle |-> "universal_love"],
       [keyword |-> <<"n","a","t","u","r","a","l">>, principle |-> "natural_law"],
       [keyword |-> <<"t","i","m","e">>, principle |-> "divine_timing"],
       [keyword |-> <<"b","a","l","a","n","c","e">>, principle |-> "cosmic_balance"],
       [keyword |-> <<"p","a","t","t","e","r","n">>, principle |-> "sacred_pattern"],
       [keyword |-> <<"g","u","i","d","e">>, principle |-> "spiritual_guidance"],
       [keyword |-> <<"t","r","u","t","h">>, principle |-> "universal_truth"],
       [keyword |-> <<"c","r","e","a","t","e">>, principle |-> "divine_creation"] >>

RECURSIVE PrinciplesFrom(_, _)
PrinciplesFrom(i, question_lower) ==
    IF i > Len(principle_mapping) THEN <<>>
    ELSE (IF Contains(principle_mapping[i].keyword, question_lower)
          THEN <<principle_mapping[i].principle>>
          ELSE <<>>)
         \o PrinciplesFrom(i + 1, question_lower)

\* MysticalCodeOracle._extract_principles
NonEmptyOr(principles, default) == IF principles # <<>> THEN principles ELSE default

_extract_principles(question) ==
    NonEmptyOr(PrinciplesFrom(1, Lower(question)), <<"divine_order">>)

\* MysticalCodeOracle._find_divine_signs; t is the clock it reads
_find_divine_signs(context, t) ==
    (IF DateTime(t).minute \in {11, 22, 33}
     THEN << <<"M","a","s","t","e","r"," ","n","u","m","b","e","r"," ","m","i","n","u","t","e"," ">> \o IntToStr(DateTime(t).minute)
             \o <<":"," ","S","p","i","r","i","t","u","a","l"," ","i","n","s","i","g","h","t">> >>
     ELSE <<>>)
    \o
    (IF "line_count" \in DOMAIN context /\ context["line_count"] % 7 = 0
     THEN << <<"D","i","v","i","n","e"," ","p","e","r","f","e","c","t","i","o","n",":"," ">> \o IntToStr(context["line_count"])
             \o <<" ","l","i","n","e","s"," ","(","m","u","l","t","i","p","l","e"," ","o","f"," ","7",")">> >>
     ELSE <<>>)

\* self.sacred_numbers
sacred_numbers ==
    << [number |-> 3, meaning |-> <<"T","r","i","n","i","t","y"," ","-"," ","B","o","d","y",","," ","M","i","n","d",","," ","S","p","i","r","i","t">>],
       [number |-> 7, meaning |-> <<"D","i","v","i","n","e"," ","p","e","r","f","e","c","t","i","o","n"," ","a","n","d"," ","c","o","m","p","l","e","t","i","o","n">>],
       [number |-> 12, meaning |-> <<"D","i","v","i","n","e"," ","g","o","v","e","r","n","m","e","n","t"," ","a","n","d"," ","p","e","r","f","e","c","t"," ","f","o","u","n","d","a","t","i","o","n">>],
       [number |-> 40, meaning |-> <<"T","e","s","t","i","n","g",","," ","t","r","i","a","l",","," ","p","r","o","b","a","t","i","o","n">>],
       [number |-> 144, meaning |-> <<"D","i","v","i","n","e"," ","g","o","v","e","r","n","m","e","n","t"," ","a","n","d"," ","c","h","o","s","e","n"," ","p","e","o","p","l","e">>],
       [number |-> 153, meaning |-> <<"D","i","v","i","n","e"," ","e","l","e","c","t","i","o","n"," ","a","n","d"," ","g","r","a","c","e">>],
       [number |-> 666, meaning |-> <<"W","a","r","n","i","n","g"," ","-"," ","i","m","p","e","r","f","e","c","t","i","o","n",","," ","f","a","l","l","i","n","g"," ","s","h","o","r","t">>],
       [number |-> 888, meaning |-> <<"J","e","s","u","s"," ","-"," ","s","a","l","v","a","t","i","o","n"," ","a","n","d"," ","r","e","d","e","m","p","t","i","o","n">>] >>

\* NumberMeaning_blank is the lookup with an empty text for an absent key.
NumberMeaning_blank(number) ==
    IF \E i \in 1..Len(sacred_numbers) : sacred_numbers[i].number = number
    THEN sacred_numbers[CHOOSE i \in 1..Len(sacred_numbers) :
                            sacred_numbers[i].number = number].meaning
    ELSE <<>>

\* self.sacred_numbers.get(number, "Divine mystery")
NumberMeaning(number) ==
    IF \E i \in 1..Len(sacred_numbers) : sacred_numbers[i].number = number
    THEN sacred_numbers[CHOOSE i \in 1..Len(sacred_numbers) :
                            sacred_numbers[i].number = number].meaning
    ELSE <<"D","i","v","i","n","e"," ","m","y","s","t","e","r","y">>

\* hashlib.md5(text.encode()).hexdigest()[:3], for the texts the model passes
\* to seek_guidance
md5_hex3 ==
    << [text |->
           <<"H","o","w"," ","t","o"," ","f","i","x"," ","t","h","i","s"," ","o","r","d","e","r">>,
        hex3 |-> <<"e","e","e">>],
       [text |->
           <<"G","u","i","d","e"," ","m","y"," ","c","r","i","t","i","c","a","l"," ","w","o","r","k">>,
        hex3 |-> <<"7","e","e">>],
       [text |->
           <<"C","o","d","e"," ","r","e","v","i","e","w"," ","f","o","r"," ","d","i","v","i","n","e"," ","a","l","i","g","n","m","e","n","t",":"," ","l","o","g","i","n"," ","g","u","i","d","e">>,
        hex3 |-> <<"9","8","4">>],
       [text |->
           <<"C","o","d","e"," ","r","e","v","i","e","w"," ","f","o","r"," ","d","i","v","i","n","e"," ","a","l","i","g","n","m","e","n","t",":"," ","u","n","k","n","o","w","n">>,
        hex3 |-> <<"e","3","f">>],
       [text |->
           <<"G","u","i","d","e"," ","m","y"," ","c","o","d","i","n","g"," ","w","o","r","k"," ","t","o","d","a","y">>,
        hex3 |-> <<"4","5","6">>],
       [text |->
           <<"C","o","d","e"," ","r","e","v","i","e","w"," ","f","o","r"," ","m","o","d","i","f","i","c","a","t","i","o","n"," ","g","u","i","d","e","_","1">>,
        hex3 |-> <<"8","5","a">>],
       [text |->
           <<"R","e","t","r","o","s","p","e","c","t","i","v","e"," ","f","o","r"," ","7"," ","d","a","y","s"," ","o","f"," ","c","o","d","i","n","g">>,
        hex3 |-> <<"a","a","c">>],
       [text |->
           <<"M","o","d","i","f","i","c","a","t","i","o","n"," ","f","o","r"," ","g","u","i","d","e",":"," ","t","i","d","y"," ","g","u","i","d","e">>,
        hex3 |-> <<"4","7","f">>],
       [text |->
           <<"C","o","d","e"," ","r","e","v","i","e","w"," ","f","o","r"," ","d","i","v","i","n","e"," ","a","l","i","g","n","m","e","n","t",":"," ","t","i","d","y"," ","g","u","i","d","e">>,
        hex3 |-> <<"5","5","b">>] >>

Md5Hex3(text) ==
    md5_hex3[CHOOSE i \in 1..Len(md5_hex3) : md5_hex3[i].text = text].hex3

HexDigits == <<"0","1","2","3","4","5","6","7","8","9","a","b","c","d","e","f">>

HexValue(ch) == (CHOOSE i \in 1..16 : HexDigits[i] = ch) - 1

\* int(digits, 16)
RECURSIVE IntBase16(_)
IntBase16(digits) ==
    IF digits = <<>> THEN 0
    ELSE 16 * IntBase16(SubSeq(digits, 1, Len(digits) - 1)) + HexValue(digits[Len(digits)])

\* SacredNumber_unreduced is line 354 without "% 1000".
SacredNumber_unreduced(question) == IntBase16(Md5Hex3(question))

\* lines 353-354 of seek_guidance
SacredNumber(question) == IntBase16(Md5Hex3(question)) % 1000

\* principle_messages of _generate_wisdom_message
principle_messages(principle) ==
    CASE principle = "divine_order" ->
           { <<"A","l","l"," ","t","h","i","n","g","s"," ","i","n"," ","d","i","v","i","n","e"," ","o","r","d","e","r"," ","-"," ","s","t","r","u","c","t","u","r","e"," ","y","o","u","r"," ","c","o","d","e"," ","w","i","t","h"," ","p","u","r","p","o","s","e">>,
             <<"D","i","v","i","n","e"," ","a","r","r","a","n","g","e","m","e","n","t"," ","b","r","i","n","g","s"," ","c","l","a","r","i","t","y"," ","-"," ","o","r","g","a","n","i","z","e"," ","w","i","t","h"," ","i","n","t","e","n","t","i","o","n">>,
             <<"O","r","d","e","r"," ","p","r","e","c","e","d","e","s"," ","p","o","w","e","r"," ","-"," ","s","t","r","u","c","t","u","r","e"," ","e","n","a","b","l","e","s"," ","f","u","n","c","t","i","o","n">> }
      [] principle = "infinite_wisdom" ->
           { <<"S","e","e","k"," ","w","i","s","d","o","m"," ","f","r","o","m"," ","t","h","e"," ","i","n","f","i","n","i","t","e"," ","s","o","u","r","c","e"," ","w","i","t","h","i","n">>,
             <<"D","i","v","i","n","e"," ","w","i","s","d","o","m"," ","f","l","o","w","s"," ","t","h","r","o","u","g","h"," ","t","h","e"," ","h","u","m","b","l","e"," ","c","o","d","e","r">>,
             <<"K","n","o","w","l","e","d","g","e"," ","c","o","m","e","s",","," ","w","i","s","d","o","m"," ","l","i","n","g","e","r","s"," ","-"," ","s","e","e","k"," ","d","e","e","p"," ","u","n","d","e","r","s","t","a","n","d","i","n","g">> }
      [] principle = "universal_love" ->
           { <<"C","o","d","e"," ","w","i","t","h"," ","l","o","v","e",","," ","f","o","r"," ","a","l","l"," ","a","r","e"," ","c","o","n","n","e","c","t","e","d">>,
             <<"L","o","v","e"," ","i","s"," ","t","h","e"," ","f","o","u","n","d","a","t","i","o","n"," ","o","f"," ","a","l","l"," ","c","r","e","a","t","i","o","n"," ","-"," ","i","n","c","l","u","d","i","n","g"," ","c","o","d","e">>,
             <<"L","e","t"," ","l","o","v","e"," ","g","u","i","d","e"," ","e","v","e","r","y"," ","k","e","y","s","t","r","o","k","e"," ","a","n","d"," ","d","e","c","i","s","i","o","n">> }
      [] principle = "natural_law" ->
           { <<"A","l","i","g","n"," ","w","i","t","h"," ","n","a","t","u","r","a","l"," ","l","a","w","s"," ","i","n"," ","y","o","u","r"," ","c","o","d","e"," ","d","e","s","i","g","n">>,
             <<"N","a","t","u","r","e","'","s"," ","p","a","t","t","e","r","n","s"," ","a","r","e"," ","d","i","v","i","n","e"," ","b","l","u","e","p","r","i","n","t","s">>,
             <<"C","o","d","e"," ","i","n"," ","h","a","r","m","o","n","y"," ","w","i","t","h"," ","u","n","i","v","e","r","s","a","l"," ","p","r","i","n","c","i","p","l","e","s">> }
      [] principle = "divine_timing" ->
           { <<"E","v","e","r","y","t","h","i","n","g"," ","i","n"," ","i","t","s"," ","p","e","r","f","e","c","t"," ","t","i","m","i","n","g"," ","-"," ","p","a","t","i","e","n","c","e"," ","y","i","e","l","d","s"," ","p","e","r","f","e","c","t","i","o","n">>,
             <<"D","i","v","i","n","e"," ","t","i","m","i","n","g"," ","b","r","i","n","g","s"," ","s","y","n","c","h","r","o","n","i","c","i","t","y"," ","t","o"," ","y","o","u","r"," ","c","o","d","i","n","g"," ","j","o","u","r","n","e","y">>,
             <<"W","a","i","t"," ","o","n"," ","J","a","h"," ","-"," ","t","h","e"," ","r","i","g","h","t"," ","s","o","l","u","t","i","o","n"," ","a","p","p","e","a","r","s"," ","a","t"," ","t","h","e"," ","r","i","g","h","t"," ","t","i","m","e">> }
      [] OTHER -> { <<"J","a","h"," ","g","u","i","d","e"," ","y","o","u","r"," ","p","a","t","h">> }

\* the base messages random.choice can draw in _generate_wisdom_message
MessageBases(principles) ==
    IF principles # <<>>
    THEN UNION { principle_messages(principles[i]) : i \in 1..Len(principles) }
    ELSE { <<"S","e","e","k"," ","a","n","d"," ","y","o","u"," ","s","h","a","l","l"," ","f","i","n","d">>, <<"A","s","k"," ","a","n","d"," ","i","t"," ","s","h","a","l","l"," ","b","e"," ","g","i","v","e","n">> }

\* MysticalCodeOracle._generate_wisdom_message, for the base message drawn
_generate_wisdom_message(message_base, sacred_number) ==
    message_base \o <<"."," ","S","a","c","r","e","d"," ","n","u","m","b","e","r"," ">> \o IntToStr(sacred_number)
    \o <<" ","w","h","i","s","p","e","r","s",":"," ">> \o NumberMeaning(sacred_number % 100)

\* The keys a context mapping of the model can carry, with the text of each
\* key and the kind of its value, in the order str() prints them here.
context_keys ==
    << [key |-> "purpose", text |-> <<"p","u","r","p","o","s","e">>, kind |-> "str"],
       [key |-> "complexity", text |-> <<"c","o","m","p","l","e","x","i","t","y">>, kind |-> "str"],
       [key |-> "target", text |-> <<"t","a","r","g","e","t">>, kind |-> "str"],
       [key |-> "modification_id", text |-> <<"m","o","d","i","f","i","c","a","t","i","o","n","_","i","d">>, kind |-> "str"],
       [key |-> "description", text |-> <<"d","e","s","c","r","i","p","t","i","o","n">>, kind |-> "str"],
       [key |-> "rationale", text |-> <<"r","a","t","i","o","n","a","l","e">>, kind |-> "str"],
       [key |-> "author", text |-> <<"a","u","t","h","o","r">>, kind |-> "str"],
       [key |-> "period", text |-> <<"p","e","r","i","o","d">>, kind |-> "str"],
       [key |-> "total_modifications", text |-> <<"t","o","t","a","l","_","m","o","d","i","f","i","c","a","t","i","o","n","s">>, kind |-> "int"],
       [key |-> "average_alignment", text |-> <<"a","v","e","r","a","g","e","_","a","l","i","g","n","m","e","n","t">>, kind |-> "float"],
       [key |-> "focus_area", text |-> <<"f","o","c","u","s","_","a","r","e","a">>, kind |-> "optional"],
       [key |-> "day", text |-> <<"d","a","y">>, kind |-> "str"],
       [key |-> "focus", text |-> <<"f","o","c","u","s">>, kind |-> "str"],
       [key |-> "line_count", text |-> <<"l","i","n","e","_","c","o","u","n","t">>, kind |-> "int"],
       [key |-> "code", text |-> <<"c","o","d","e">>, kind |-> "str"],
       [key |-> "sacred_timing", text |-> <<"s","a","c","r","e","d","_","t","i","m","i","n","g">>, kind |-> "timing"] >>

\* repr() of a context value of the given kind (a float is carried as its repr)
Repr(value, kind) ==
    CASE kind = "str" -> <<"'">> \o value \o <<"'">>
      [] kind = "int" -> IntToStr(value)
      [] kind = "float" -> value
      [] kind = "optional" -> IF value = None THEN <<"N","o","n","e">> ELSE <<"'">> \o value \o <<"'">>
      [] kind = "timing" ->
           <<"{","'","h","o","u","r","'",":"," ">> \o IntToStr(value.hour)
           \o <<","," ","'","m","i","n","u","t","e","'",":"," ">> \o IntToStr(value.minute)
           \o <<","," ","'","s","e","c","o","n","d","'",":"," ">> \o IntToStr(value.second)
           \o <<","," ","'","i","s","_","s","a","c","r","e","d","_","h","o","u","r","'",":"," ">>
           \o (IF value.is_sacred_hour THEN <<"T","r","u","e">> ELSE <<"F","a","l","s","e">>) \o <<"}">>

RECURSIVE ItemsStr(_, _, _)
ItemsStr(context, i, first) ==
    IF i > Len(context_keys) THEN <<>>
    ELSE IF context_keys[i].key \in DOMAIN context
         THEN (IF first THEN <<>> ELSE <<","," ">>)
              \o <<"'">> \o context_keys[i].text \o <<"'",":"," ">>
              \o Repr(context[context_keys[i].key], context_keys[i].kind)
              \o ItemsStr(context, i + 1, FALSE)
         ELSE ItemsStr(context, i + 1, first)

\* str(context)
DictStr(context) == <<"{">> \o ItemsStr(context, 1, TRUE) \o <<"}">>

\* _determine_revelation_level_cosmic is the first rule answering the
\* highest level of the class.
_determine_revelation_level_cosmic(question, context) ==
    IF Contains(<<"w","h","y">>, Lower(question)) /\ Len(question) > 50
    THEN "cosmic_consciousness"
    ELSE IF Contains(<<"h","o","w">>, Lower(question))
            /\ Contains(<<"c","o","m","p","l","e","x">>, Lower(DictStr(context)))
    THEN "divine_revelation"
    ELSE IF Contains(<<"w","h","a","t">>, Lower(question)) /\ Len(question) > 30
    THEN "spiritual_insight"
    ELSE "human_understanding"

\* MysticalCodeOracle._determine_revelation_level
_determine_revelation_level(question, context) ==
    IF Contains(<<"w","h","y">>, Lower(question)) /\ Len(question) > 50
    THEN "mystical_knowledge"
    ELSE IF Contains(<<"h","o","w">>, Lower(question))
            /\ Contains(<<"c","o","m","p","l","e","x">>, Lower(DictStr(context)))
    THEN "divine_revelation"
    ELSE IF Contains(<<"w","h","a","t">>, Lower(question)) /\ Len(question) > 30
    THEN "spiritual_insight"
    ELSE "human_understanding"

\* MysticalCodeOracle._get_scriptural_reference
references(principle) ==
    CASE principle = "divine_order" -> <<"G","e","n","e","s","i","s"," ","1"," ","-"," ","I","n"," ","t","h","e"," ","b","e","g","i","n","n","i","n","g">>
      [] principle = "infinite_wisdom" -> <<"P","r","o","v","e","r","b","s"," ","2",":","6"," ","-"," ","F","o","r"," ","t","h","e"," ","L","o","r","d"," ","g","i","v","e","t","h"," ","w","i","s","d","o","m">>
      [] principle = "universal_love" -> <<"1"," ","J","o","h","n"," ","4",":","8"," ","-"," ","G","o","d"," ","i","s"," ","l","o","v","e">>
      [] principle = "natural_law" -> <<"R","o","m","a","n","s"," ","1",":","2","0"," ","-"," ","T","h","e"," ","i","n","v","i","s","i","b","l","e"," ","t","h","i","n","g","s"," ","o","f"," ","h","i","m">>
      [] principle = "divine_timing" -> <<"E","c","c","l","e","s","i","a","s","t","e","s"," ","3",":","1"," ","-"," ","T","o"," ","e","v","e","r","y","t","h","i","n","g"," ","t","h","e","r","e"," ","i","s"," ","a"," ","s","e","a","s","o","n">>
      [] principle = "cosmic_balance" -> <<"P","s","a","l","m"," ","7","5",":","3"," ","-"," ","T","h","e"," ","e","a","r","t","h"," ","a","n","d"," ","a","l","l"," ","t","h","e"," ","i","n","h","a","b","i","t","a","n","t","s">>
      [] principle = "sacred_pattern" -> <<"E","x","o","d","u","s"," ","2","5",":","4","0"," ","-"," ","A","c","c","o","r","d","i","n","g"," ","t","o"," ","t","h","e"," ","p","a","t","t","e","r","n">>
      [] principle = "spiritual_guidance" -> <<"P","s","a","l","m"," ","3","2",":","8"," ","-"," ","I"," ","w","i","l","l"," ","i","n","s","t","r","u","c","t"," ","t","h","e","e"," ","a","n","d"," ","t","e","a","c","h"," ","t","h","e","e">>
      [] principle = "universal_truth" -> <<"J","o","h","n"," ","1","4",":","6"," ","-"," ","I"," ","a","m"," ","t","h","e"," ","w","a","y",","," ","t","h","e"," ","t","r","u","t","h",","," ","a","n","d"," ","t","h","e"," ","l","i","f","e">>
      [] principle = "divine_creation" -> <<"C","o","l","o","s","s","i","a","n","s"," ","1",":","1","6"," ","-"," ","F","o","r"," ","b","y"," ","h","i","m"," ","w","e","r","e"," ","a","l","l"," ","t","h","i","n","g","s"," ","c","r","e","a","t","e","d">>
      [] OTHER -> <<"P","s","a","l","m"," ","2","3",":","1"," ","-"," ","T","h","e"," ","L","o","r","d"," ","i","s"," ","m","y"," ","s","h","e","p","h","e","r","d">>

_get_scriptural_reference(principles) ==
    IF principles # <<>>
    THEN references(principles[1])
    ELSE <<"P","r","o","v","e","r","b","s"," ","3",":","5","-","6"," ","-"," ","T","r","u","s","t"," ","i","n"," ","t","h","e"," ","L","o","r","d"," ","w","i","t","h"," ","a","l","l"," ","t","h","i","n","e"," ","h","e","a","r","t">>

\* the two texts of a JahWisdom that quote the sacred number (lines 356-361
\* and 373)
SacredNumberTexts(sacred_number, message_base) ==
    [message |-> _generate_wisdom_message(message_base, sacred_number),
     meditation_focus |->
         <<"M","e","d","i","t","a","t","e"," ","o","n"," ","s","a","c","r","e","d"," ","n","u","m","b","e","r"," ">> \o IntToStr(sacred_number)
         \o <<":"," ">> \o NumberMeaning(sacred_number)]

\* The JahWisdom that seek_guidance builds (lines 350-374) when random.choice
\* draws message_base; t is the clock it reads.
JahWisdom(question, context, t, message_base) ==
    [message |-> SacredNumberTexts(SacredNumber(question), message_base).message,
     principle |-> _extract_principles(question)[1],
     revelation_level |-> _determine_revelation_level(question, context),
     timestamp |-> t,
     confirmation_signs |-> _find_divine_signs(context, t),
     scriptural_reference |-> _get_scriptural_reference(_extract_principles(question)),
     meditation_focus |->
         SacredNumberTexts(SacredNumber(question), message_base).meditation_focus]

\* the wisdoms one seek_guidance call can return
Wisdoms(question, context, t) ==
    { JahWisdom(question, context, t, base) :
          base \in MessageBases(_extract_principles(question)) }

\* JahWisdom.to_dict (without encoded_message, a SHA-256 prefix of the message)
to_dict(wisdom) ==
    [message |-> wisdom.message,
     principle |-> wisdom.principle,
     revelation_level |-> wisdom.revelation_level,
     timestamp |-> DateTimeIso(DateTime(wisdom.timestamp)),
     confirmation_signs |-> wisdom.confirmation_signs,
     scriptural_reference |-> wisdom.scriptural_reference,
     meditation_focus |-> wisdom.meditation_focus]

(***************************************************************************)
(* JahConsciousnessSystem                                                  *)
(***************************************************************************)

\* the question divine_code_review puts to the oracle (line 419)
ReviewQuestion(context) ==
    <<"C","o","d","e"," ","r","e","v","i","e","w"," ","f","o","r"," ","d","i","v","i","n","e"," ","a","l","i","g","n","m","e","n","t",":"," ">> \o Get(context, "purpose", <<"u","n","k","n","o","w","n">>)

\* OracleAppends_once is the system without the review's own question: one
\* wisdom for every call.
\*
\* What one JahConsciousnessSystem.seek_divine_guidance call appends to
\* self.oracle.revelation_history: the wisdom of line 64 and, when the context
\* carries "code", the wisdom that divine_code_review seeks (lines 68-72, 418).
\* `wisdom' is the wisdom returned as divine_wisdom.
OracleAppends_once(question, code_context, t, wisdom) == { <<wisdom>> }

OracleAppends(question, code_context, t, wisdom) ==
    IF "code" \in DOMAIN code_context
    THEN { <<wisdom, review>> :
               review \in Wisdoms(ReviewQuestion(code_context), code_context, t) }
    ELSE { <<wisdom>> }

\* JahConsciousnessSystem.perform_daily_practice.  t_ritual is the clock that
\* the morning ritual, the weekday and the oracle read (lines 90-99), t_date
\* the clock read for the "date" field (line 115); the constant
\* "evening_intention" and "blessing" texts are left out.
DailyQuestion == <<"G","u","i","d","e"," ","m","y"," ","c","o","d","i","n","g"," ","w","o","r","k"," ","t","o","d","a","y">>

DailyContext(t) == [day |-> Weekday(DateTime(t)), focus |-> <<"s","e","r","v","i","c","e"," ","t","h","r","o","u","g","h"," ","c","o","d","e">>]

\* line 99, for each clock value: the wisdoms the oracle can return
DailyWisdoms == [t \in Ticks |-> Wisdoms(DailyQuestion, DailyContext(t), t)]

\* line 95, for each weekday: the scripture for the day's coding work
DailyScripture ==
    [day \in 0..6 |->
        get_wisdom_for_situation(<<"C","o","d","i","n","g"," ","w","o","r","k"," ","o","n"," ">> \o WeekdayNames[day + 1])]

perform_daily_practice(t_ritual, t_date, wisdom) ==
    [date |-> DateTimeIso(DateTime(t_date)),
     daily_practices |-> << perform_ritual(<<"m","o","r","n","i","n","g","_","d","e","d","i","c","a","t","i","o","n">>, None, t_ritual) >>,
     scripture |-> DailyScripture[DateTime(t_ritual).day % 7],
     guidance |-> to_dict(wisdom)]

(***************************************************************************)
(* JahConsciousARKController                                               *)
(***************************************************************************)

\* The controllers alive at once, the coroutines in flight at once, the
\* entries of one history, the wisdoms of one oracle and the /seek-guidance
\* requests the model follows.
MaxControllers == 2

MaxTasks == 2

MaxHistory == 2

MaxOracle == 3

MaxServed == 1

MaxRequests == 1

CtrlIds == 1..MaxControllers

TaskIds == 1..MaxTasks

\* self.sacred_hours
sacred_hours == {3, 6, 9, 12, 15, 18, 21, 0}

\* JahConsciousARKController.__init__ (lines 40-41, and the oracle of the
\* jah_system of line 32)
NewControllerState ==
    [revelations_received |-> <<>>,
     daily_practices |-> EmptyDict,
     oracle_history |-> <<>>]

\* A coroutine: where it is suspended, on which controller, for which route
\* and inside which method, and, inside seek_divine_coding_guidance, the
\* question, the caller's mapping and the guidance_context of line 67.
IdleTask == [pc |-> "idle", c |-> 0, route |-> "none", caller |-> "none",
             question |-> <<>>, context |-> None, guidance_context |-> None]

Routes == {"seek-guidance", "divine-insights", "daily-practice",
           "sacred-review", "divine-retrospective", "other"}

\* a controller held by the embedding program, not by a request in flight
Held(c) == ctrls[c] # None /\ \A t \in TaskIds : tasks[t].c # c \/ tasks[t].route = "none"

\* the slot a newly constructed controller takes
FreeSlot == CHOOSE c \in CtrlIds : ctrls[c] = None /\ \A d \in CtrlIds : ctrls[d] = None => c <= d

\* the requests in flight
Requests == {t \in TaskIds : tasks[t].route # "none"}

\* task t may enter an operation of controller c: as a direct call of the
\* program, or as the body of its request's route
CanCall(t, c, route) ==
    \/ tasks[t].pc = "idle" /\ Held(c)
    \/ tasks[t].pc = "route" /\ tasks[t].route = route /\ tasks[t].c = c

\* lines 67-77: the context the guidance is sought with
GuidanceContext(context, code, t) ==
    DictSet(IF code # None /\ code # <<>>
            THEN DictSet(IF Truthy(context) THEN context ELSE EmptyDict, "code", code)
            ELSE IF Truthy(context) THEN context ELSE EmptyDict,
            "sacred_timing",
            [hour |-> DateTime(t).hour,
             minute |-> DateTime(t).minute,
             second |-> 0,
             is_sacred_hour |-> DateTime(t).hour \in sacred_hours])

\* lines 81-92: the revelation recorded for a guidance
Revelation(question, divine_wisdom, t) ==
    [timestamp |-> DateTimeIso(DateTime(t)),
     question |-> question,
     guidance_received |-> Get(divine_wisdom, "message", <<>>),
     revelation_level |-> Get(divine_wisdom, "revelation_level", <<>>),
     principles |-> << Get(divine_wisdom, "principle", <<>>) >>]

\* AppendRevelation_assign is line 93 as an assignment of a one-element list.
AppendRevelation_assign(history, revelation) == <<revelation>>

\* line 93: self.revelations_received.append(revelation)
AppendRevelation(history, revelation) == Append(history, revelation)

\* the payload of lines 506-507
EmptyPayload ==
    [message |-> <<"N","o"," ","d","i","v","i","n","e"," ","i","n","s","i","g","h","t","s"," ","r","e","c","o","r","d","e","d"," ","y","e","t">>,
     blessing |-> <<"S","e","e","k"," ","a","n","d"," ","y","o","u"," ","s","h","a","l","l"," ","f","i","n","d">>]

\* lines 513-514 and 517: counts[key] = counts.get(key, 0) + 1; a dict keeps
\* its keys in the order of their first insertion
CountKey(counts, key) ==
    IF \E i \in 1..Len(counts) : counts[i].key = key
    THEN [i \in 1..Len(counts) |->
             IF counts[i].key = key
             THEN [key |-> key, count |-> counts[i].count + 1]
             ELSE counts[i]]
    ELSE Append(counts, [key |-> key, count |-> 1])

RECURSIVE CountKeys(_, _)
CountKeys(counts, keys) ==
    IF keys = <<>> THEN counts
    ELSE CountKeys(CountKey(counts, Head(keys)), Tail(keys))

\* the keys the loop of lines 512-517 counts: the level of each revelation,
\* and every entry of each revelation's "principles"
RECURSIVE LevelsOf(_)
LevelsOf(history) ==
    IF history = <<>> THEN <<>>
    ELSE << Get(Head(history), "revelation_level", <<>>) >> \o LevelsOf(Tail(history))

RECURSIVE PrinciplesOf(_)
PrinciplesOf(history) ==
    IF history = <<>> THEN <<>>
    ELSE Get(Head(history), "principles", <<>>) \o PrinciplesOf(Tail(history))

\* MostCommon_last is max() answering the last of the greatest items.
MostCommon_last(counts) ==
    IF counts = <<>> THEN [key |-> "none", count |-> 0]
    ELSE counts[CHOOSE i \in 1..Len(counts) :
                    /\ \A j \in 1..Len(counts) : counts[j].count <= counts[i].count
                    /\ \A j \in (i + 1)..Len(counts) : counts[j].count < counts[i].count]

\* lines 519-526: max(counts.items(), key=lambda x: x[1]) answers the first
\* of the greatest items in the order of the dict; ("none", 0) for no item
MostCommon(counts) ==
    IF counts = <<>> THEN [key |-> "none", count |-> 0]
    ELSE counts[CHOOSE i \in 1..Len(counts) :
                    /\ \A j \in 1..Len(counts) : counts[j].count <= counts[i].count
                    /\ \A j \in 1..(i - 1) : counts[j].count < counts[i].count]

\* sum(principle_counts.values())
RECURSIVE SumCounts(_)
SumCounts(counts) ==
    IF counts = <<>> THEN 0 ELSE Head(counts).count + SumCounts(Tail(counts))

\* the characters of an isoformat() text in the order of their code points
IsoChars == << "-", ".", "0", "1", "2", "3", "4", "5", "6", "7", "8", "9", ":", "T" >>

CharRank(ch) == CHOOSE i \in 1..Len(IsoChars) : IsoChars[i] = ch

\* a < b for two str
RECURSIVE StrLt(_, _)
StrLt(a, b) ==
    IF b = <<>> THEN FALSE
    ELSE IF a = <<>> THEN TRUE
    ELSE IF Head(a) = Head(b) THEN StrLt(Tail(a), Tail(b))
    ELSE CharRank(Head(a)) < CharRank(Head(b))

\* sorted(..., key=timestamp, reverse=True) is stable: a revelation goes
\* after the revelations whose timestamp is not smaller
RECURSIVE InsertByTimestamp(_, _)
InsertByTimestamp(sorted, x) ==
    IF sorted = <<>> THEN <<x>>
    ELSE IF StrLt(Get(Head(sorted), "timestamp", <<>>), Get(x, "timestamp", <<>>))
         THEN <<x>> \o sorted
         ELSE <<Head(sorted)>> \o InsertByTimestamp(Tail(sorted), x)

RECURSIVE SortByTimestamp(_)
SortByTimestamp(xs) ==
    IF xs = <<>> THEN <<>>
    ELSE InsertByTimestamp(SortByTimestamp(SubSeq(xs, 1, Len(xs) - 1)), xs[Len(xs)])

\* RecentInsights_first_five is the slice taken without the sort of lines
\* 528-532.
RecentInsights_first_five(history) == Prefix(history, 5)

\* lines 528-532
RecentInsights(history) == Prefix(SortByTimestamp(history), 5)

\* text[:limit] + "..." if len(text) > limit else text (lines 554-563)
Shorten(text, limit) ==
    IF Len(text) > limit THEN SubSeq(text, 1, limit) \o <<".",".",".">> ELSE text

\* one entry of "recent_insights" (lines 552-566)
RecentInsight(insight) ==
    [time |-> Get(insight, "timestamp", <<>>),
     question |-> Shorten(Get(insight, "question", <<>>), 100),
     guidance |-> Shorten(Get(insight, "guidance_received", <<>>), 150),
     level |-> Get(insight, "revelation_level", <<>>)]

\* InsightsPayload_all_levels is the report with the share of the level
\* taken of the number of levels instead of the number of revelations.
InsightsPayload_all_levels(history) ==
    LET level_counts == CountKeys(<<>>, LevelsOf(history))
        principle_counts == CountKeys(<<>>, PrinciplesOf(history))
        most_common_level == MostCommon(level_counts)
        most_common_principle == MostCommon(principle_counts)
        recent_insights == RecentInsights(history)
    IN  [total_insights |-> Len(history),
         insights_by_level |-> level_counts,
         most_common_revelation_level |->
             [level |-> most_common_level.key,
              count |-> most_common_level.count,
              percentage |-> Frac(most_common_level.count, Len(level_counts))],
         principles_applied |-> principle_counts,
         most_common_principle |->
             [principle |-> most_common_principle.key,
              count |-> most_common_principle.count,
              percentage |->
                  IF principle_counts # <<>>
                  THEN Frac(most_common_principle.count, SumCounts(principle_counts))
                  ELSE Frac(0, 1)],
         recent_insights |->
             [i \in 1..Len(recent_insights) |-> RecentInsight(recent_insights[i])]]

\* the payload of lines 534-575 for a history that is not empty (the
\* constant "interpretation" and "blessing" texts are left out)
InsightsPayload(history) ==
    LET level_counts == CountKeys(<<>>, LevelsOf(history))
        principle_counts == CountKeys(<<>>, PrinciplesOf(history))
        most_common_level == MostCommon(level_counts)
        most_common_principle == MostCommon(principle_counts)
        recent_insights == RecentInsights(history)
    IN  [total_insights |-> Len(history),
         insights_by_level |-> level_counts,
         most_common_revelation_level |->
             [level |-> most_common_level.key,
              count |-> most_common_level.count,
              percentage |-> Frac(most_common_level.count, Len(history))],
         principles_applied |-> principle_counts,
         most_common_principle |->
             [principle |-> most_common_principle.key,
              count |-> most_common_principle.count,
              percentage |->
                  IF principle_counts # <<>>
                  THEN Frac(most_common_principle.count, SumCounts(principle_counts))
                  ELSE Frac(0, 1)],
         recent_insights |->
             [i \in 1..Len(recent_insights) |-> RecentInsight(recent_insights[i])]]

\* get_divine_insights_report_late is the report with the emptiness test of
\* line 506 off by one.
get_divine_insights_report_late(history) ==
    IF Len(history) <= 1 THEN EmptyPayload
    ELSE InsightsPayload(history)

\* get_divine_insights_report: the fixed payload for an empty history
\* (lines 506-507), otherwise the report of lines 534-575
get_divine_insights_report(history) ==
    IF history = <<>> THEN EmptyPayload
    ELSE InsightsPayload(history)

\* HistoryAfterReport_in_place is the report sorting the list itself, latest
\* first, where lines 528-532 sort a copy.
HistoryAfterReport_in_place(history) ==
    [i \in 1..Len(history) |-> history[Len(history) + 1 - i]]

\* self.revelations_received after get_divine_insights_report: the report
\* sorts and slices copies (lines 528-532), the list itself is not written
HistoryAfterReport(history) == history

\* the modification the model reviews, and the arguments of the guided
\* modification and of the retrospective
Modification ==
    [modification_id |-> <<"g","u","i","d","e","_","1">>,
     description |-> <<"D","i","v","i","n","e"," ","f","u","n","c","t","i","o","n"," ","f","o","r"," ","s","a","c","r","e","d"," ","r","e","v","i","e","w"," ","d","e","m","o","n","s","t","r","a","t","i","o","n">>,
     rationale |-> <<"T","o"," ","d","e","m","o","n","s","t","r","a","t","e"," ","s","a","c","r","e","d"," ","c","o","d","e"," ","r","e","v","i","e","w"," ","p","r","i","n","c","i","p","l","e","s">>,
     author |-> <<"s","y","s","t","e","m">>,
     modified_version |-> <<"d","e","f"," ","f","(",")",":","\n"," "," "," "," ","r","e","t","u","r","n"," ","1">>]

\* the context perform_sacred_code_review passes (lines 224-229)
ReviewContext(modification) ==
    [modification_id |-> modification.modification_id,
     description |-> modification.description,
     rationale |-> modification.rationale,
     author |-> modification.author]

\* the context propose_divinely_guided_modification passes (lines 132-137)
ProposeContext(target_component, description, rationale, author) ==
    [target |-> target_component,
     purpose |-> description,
     rationale |-> rationale,
     author |-> author]

\* the context conduct_divine_retrospective passes (lines 419-424); the mean
\* of the random alignments enters as its repr
RetrospectiveContext(period_days, avg_alignment, focus_area) ==
    [period |-> IntToStr(period_days) \o <<" ","d","a","y","s">>,
     total_modifications |-> period_days,
     average_alignment |-> avg_alignment,
     focus_area |-> focus_area]

\* the coroutines suspended inside seek_divine_coding_guidance of c
InFlight(c) == Cardinality({t \in TaskIds : tasks[t].pc = "seek_await" /\ tasks[t].c = c})

(***************************************************************************)
(* Actions                                                                 *)
(***************************************************************************)

Init ==
    /\ now = 0
    /\ ctrls = [c \in CtrlIds |-> None]
    /\ tasks = [t \in TaskIds |-> IdleTask]
    /\ seeks_completed = [c \in CtrlIds |-> 0]
    /\ practice_runs = [c \in CtrlIds |-> EmptyDict]
    /\ report_log = None
    /\ requests_served = 0
    /\ request_report = None
    /\ pin = None
    /\ pout = None

\* the wall clock reaches its next sampled instant
Tick ==
    /\ now < MaxTime
    /\ now' = now + 1
    /\ UNCHANGED <<ctrls, tasks, seeks_completed, practice_runs, report_log,
                   requests_served, request_report, pin, pout>>

\* A program that uses the controller as a library constructs its controller
\* and keeps it; the web application constructs one for each request.
NewController(c) ==
    /\ \A d \in CtrlIds : ctrls[d] = None
    /\ requests_served = 0
    /\ request_report = None
    /\ c = FreeSlot
    /\ ctrls' = [ctrls EXCEPT ![c] = NewControllerState]
    /\ UNCHANGED <<now, tasks, seeks_completed, practice_runs, report_log,
                   requests_served, request_report, pin, pout>>

\* The outermost call of task t returns.  A request ends with it, and the
\* controller that get_jah_controller built for the request is dropped.
\* cs and sc are the controllers and the completed-call counts at that point.
Finish(t, cs, sc) ==
    /\ tasks' = [tasks EXCEPT ![t] = IdleTask]
    /\ IF tasks[t].route = "none"
       THEN /\ ctrls' = cs
            /\ seeks_completed' = sc
            /\ UNCHANGED practice_runs
       ELSE /\ ctrls' = [cs EXCEPT ![tasks[t].c] = None]
            /\ seeks_completed' = [sc EXCEPT ![tasks[t].c] = 0]
            /\ practice_runs' = [practice_runs EXCEPT ![tasks[t].c] = EmptyDict]

\* initialize_daily_practice up to its await (lines 46-52) on controller c,
\* whose state is ctrl:
\* the practice is computed and stored under today's key, whatever the cache
\* holds.  t_date is the clock read for the "date" field of the practice and
\* t_key the clock read for the key; the clock passes at most one sampled
\* instant between the first read and the last.
InitializePractice(t, c, ctrl, pc_after, route) ==
    /\ Len(ctrl.oracle_history) < MaxOracle
    /\ \E t_date \in {now, now + 1}, t_key \in {now, now + 1} :
       \E wisdom \in DailyWisdoms[now] :
         /\ t_date <= t_key
         /\ t_key <= MaxTime
         /\ now' = t_key
         /\ ctrls' = [ctrls EXCEPT
                ![c] = [oracle_history |-> Append(ctrl.oracle_history, wisdom),
                        revelations_received |-> ctrl.revelations_received,
                        daily_practices |->
                            DictSet(ctrl.daily_practices, DateIso(DateTime(t_key)),
                                    perform_daily_practice(now, t_date, wisdom))]]
         /\ practice_runs' = [practice_runs EXCEPT
                ![c] = DictSet(@, DateIso(DateTime(t_key)),
                               Get(@, DateIso(DateTime(t_key)), 0) + 1)]
    /\ tasks' = [tasks EXCEPT ![t] = [IdleTask EXCEPT !.pc = pc_after, !.c = c,
                                                       !.route = route]]

\* A direct call of initialize_daily_practice, or the call the /daily-practice
\* route makes on its controller.
InitializeDailyPractice(t, c) ==
    /\ CanCall(t, c, "daily-practice")
    /\ InitializePractice(t, c, ctrls[c], "practice_await", tasks[t].route)
    /\ UNCHANGED <<seeks_completed, report_log, requests_served, request_report,
                   pin, pout>>

\* A request arrives: get_jah_controller builds a controller for it and
\* awaits its initialize_daily_practice (dependencies_jah.py lines 26-45).
RequestStart(t, c, route) ==
    /\ tasks[t].pc = "idle"
    /\ Cardinality(Requests) < MaxRequests
    /\ \A d \in CtrlIds : ~Held(d)
    /\ \E d \in CtrlIds : ctrls[d] = None
    /\ c = FreeSlot
    /\ route \in {"seek-guidance", "sacred-review", "divine-retrospective"}
           => requests_served < MaxServed
    /\ InitializePractice(t, c, NewControllerState, "dep_await", route)
    /\ UNCHANGED <<seeks_completed, report_log, requests_served, request_report,
                   pin, pout>>

\* get_jah_controller returns the controller to the route.
DependencyReturn(t) ==
    /\ tasks[t].pc = "dep_await"
    /\ tasks' = [tasks EXCEPT ![t].pc = "route"]
    /\ UNCHANGED <<now, ctrls, seeks_completed, practice_runs, report_log,
                   requests_served, request_report, pin, pout>>

\* initialize_daily_practice returns: to the program, or to the
\* /daily-practice route, which goes on to read the cache.
PracticeReturn(t) ==
    /\ tasks[t].pc = "practice_await"
    /\ tasks' = [tasks EXCEPT ![t] = IF tasks[t].route = "none" THEN IdleTask
                                     ELSE [@ EXCEPT !.pc = "practice_read"]]
    /\ UNCHANGED <<now, ctrls, seeks_completed, practice_runs, report_log,
                   requests_served, request_report, pin, pout>>

\* The /daily-practice route after its initialize_daily_practice (lines
\* 150-158): it reads today's entry and, finding none, stores a practice
\* computed by a JahConsciousnessSystem of its own.
DailyPracticeRead(t) ==
    /\ tasks[t].pc = "practice_read"
    /\ UNCHANGED <<now, report_log, requests_served, request_report, pin, pout>>
    /\ \E wisdom \in DailyWisdoms[now] :
         Finish(t,
                IF Truthy(Get(ctrls[tasks[t].c].daily_practices,
                              DateIso(DateTime(now)), EmptyDict))
                THEN ctrls
                ELSE [ctrls EXCEPT ![tasks[t].c].daily_practices =
                         DictSet(@, DateIso(DateTime(now)),
                                 perform_daily_practice(now, now, wisdom))],
                seeks_completed)

\* A route that does not use its controller (perform-ritual, sacred-numbers,
\* scriptural-wisdom, divine-timing) returns.
RouteOther(t) ==
    /\ tasks[t].pc = "route"
    /\ tasks[t].route = "other"
    /\ Finish(t, ctrls, seeks_completed)
    /\ UNCHANGED <<now, report_log, requests_served, request_report, pin, pout>>

\* What jah_system.seek_divine_guidance (line 79) can do with a guidance
\* context at clock t: the wisdom it returns as divine_wisdom and the
\* wisdoms it appends to the oracle's history.
Guidances(question, guidance_context, t) ==
    UNION { { [divine_wisdom |-> to_dict(wisdom), appended |-> appended] :
                  appended \in OracleAppends(question, guidance_context, t, wisdom) } :
            wisdom \in Wisdoms(question, guidance_context, t) }

\* the calls of seek_divine_coding_guidance that the model makes
SeekArgs(question, code, context) ==
    [question |-> question, code |-> code, context |-> context]

ReviewArgs ==
    SeekArgs(<<"C","o","d","e"," ","r","e","v","i","e","w"," ","f","o","r"," ","m","o","d","i","f","i","c","a","t","i","o","n"," ">> \o Modification.modification_id,
             Modification.modified_version, ReviewContext(Modification))

RetrospectiveArgs(period_days, focus_area) ==
    SeekArgs(<<"R","e","t","r","o","s","p","e","c","t","i","v","e"," ","f","o","r"," ">> \o IntToStr(period_days) \o <<" ","d","a","y","s"," ","o","f"," ","c","o","d","i","n","g">>,
             None, RetrospectiveContext(period_days, <<"0",".","6","1">>, focus_area))

ProposeArgs ==
    SeekArgs(<<"M","o","d","i","f","i","c","a","t","i","o","n"," ","f","o","r"," ","g","u","i","d","e",":"," ","t","i","d","y"," ","g","u","i","d","e">>, Modification.modified_version,
             ProposeContext(<<"g","u","i","d","e">>, <<"t","i","d","y"," ","g","u","i","d","e">>, <<"l","e","s","s"," ","t","o"," ","r","e","a","d">>, <<"s","y","s","t","e","m">>))

\* the arguments the program and the /seek-guidance requests pass
SeekInputs ==
    << SeekArgs(<<"G","u","i","d","e"," ","m","y"," ","c","r","i","t","i","c","a","l"," ","w","o","r","k">>, None, None),
       SeekArgs(<<"H","o","w"," ","t","o"," ","f","i","x"," ","t","h","i","s"," ","o","r","d","e","r">>, None,
                [purpose |-> <<"l","o","g","i","n"," ","g","u","i","d","e">>, complexity |-> <<"m","e","d","i","u","m">>]),
       SeekArgs(<<"G","u","i","d","e"," ","m","y"," ","c","r","i","t","i","c","a","l"," ","w","o","r","k">>, <<"d","e","f"," ","f","(",")",":","\n"," "," "," "," ","r","e","t","u","r","n"," ","1">>,
                [purpose |-> <<"l","o","g","i","n"," ","g","u","i","d","e">>, complexity |-> <<"m","e","d","i","u","m">>]) >>

Calls == SeekInputs \o << ReviewArgs, RetrospectiveArgs(7, None), ProposeArgs >>

ReviewCallId == Len(SeekInputs) + 1

RetrospectiveCallId == Len(SeekInputs) + 2

ProposeCallId == Len(SeekInputs) + 3

\* Guidances for each call of the model at each clock value
GuidanceTable ==
    [i \in 1..Len(Calls), t \in Ticks |->
        Guidances(Calls[i].question,
                  GuidanceContext(Calls[i].context, Calls[i].code, t), t)]

\* seek_divine_coding_guidance up to its await (lines 67-102): the context
\* is completed, the oracle is asked, the revelation is appended.  The
\* caller's mapping is the one completed when it is a non-empty mapping.
\* The blessing ritual of lines 95-100 writes nothing; telemetry is an
\* injected collaborator, and its record_event may suspend the coroutine.
Seek(t, c, i, caller) ==
    /\ Len(ctrls[c].revelations_received) < MaxHistory
    /\ Len(ctrls[c].oracle_history) + 2 <= MaxOracle
    /\ \E guidance \in GuidanceTable[i, now] :
         ctrls' = [ctrls EXCEPT
            ![c] = [oracle_history |-> ctrls[c].oracle_history \o guidance.appended,
                    revelations_received |->
                        AppendRevelation(ctrls[c].revelations_received,
                                         Revelation(Calls[i].question,
                                                    guidance.divine_wisdom, now)),
                    daily_practices |-> ctrls[c].daily_practices]]
    /\ tasks' = [tasks EXCEPT ![t] =
                    [pc |-> "seek_await", c |-> c, route |-> tasks[t].route,
                     caller |-> caller, question |-> Calls[i].question,
                     context |-> IF Truthy(Calls[i].context)
                                 THEN GuidanceContext(Calls[i].context,
                                                      Calls[i].code, now)
                                 ELSE Calls[i].context,
                     guidance_context |-> GuidanceContext(Calls[i].context,
                                                          Calls[i].code, now)]]
    /\ report_log' = None
    /\ UNCHANGED <<now, seeks_completed, practice_runs,
                   requests_served, request_report, pin, pout>>

\* A direct call of seek_divine_coding_guidance, or the /seek-guidance route.
SeekCall(t, c, i) ==
    /\ CanCall(t, c, "seek-guidance")
    /\ Seek(t, c, i, "none")

\* perform_sacred_code_review up to the await of line 221.
ReviewCall(t, c) ==
    /\ CanCall(t, c, "sacred-review")
    /\ Seek(t, c, ReviewCallId, "review")

\* conduct_divine_retrospective up to the await of line 417.
RetrospectiveCall(t, c) ==
    /\ CanCall(t, c, "divine-retrospective")
    /\ Seek(t, c, RetrospectiveCallId, "retro")

\* propose_divinely_guided_modification up to the await of line 129, or,
\* without guidance, up to the await of line 181.
ProposeCall(t, c, seek_guidance) ==
    /\ tasks[t].pc = "idle"
    /\ Held(c)
    /\ IF seek_guidance
       THEN Seek(t, c, ProposeCallId, "propose")
       ELSE /\ tasks' = [tasks EXCEPT ![t] = [IdleTask EXCEPT !.pc = "propose_await",
                                                             !.c = c]]
            /\ UNCHANGED <<now, ctrls, seeks_completed, practice_runs, report_log,
                           requests_served, request_report, pin, pout>>

\* seek_divine_coding_guidance returns (line 111): to the program or the
\* route, or into the method that awaited it, which runs on to its own await
\* (lines 277, 492, 181).
SeekReturn(t) ==
    /\ tasks[t].pc = "seek_await"
    /\ report_log' = None
    /\ UNCHANGED <<now, request_report, pin, pout>>
    /\ IF tasks[t].caller = "none"
       THEN /\ Finish(t, ctrls, [seeks_completed EXCEPT ![tasks[t].c] = @ + 1])
            /\ requests_served' = IF tasks[t].route = "none" THEN requests_served
                                  ELSE requests_served + 1
       ELSE /\ tasks' = [tasks EXCEPT ![t] =
                   [@ EXCEPT !.pc = CASE tasks[t].caller = "review" -> "review_await"
                                      [] tasks[t].caller = "retro" -> "retro_await"
                                      [] OTHER -> "propose_await",
                             !.context = None, !.guidance_context = None,
                             !.question = <<>>, !.caller = "none"]]
            /\ seeks_completed' = [seeks_completed EXCEPT ![tasks[t].c] = @ + 1]
            /\ UNCHANGED <<ctrls, practice_runs, requests_served>>

\* perform_sacred_code_review, conduct_divine_retrospective or
\* propose_divinely_guided_modification returns.
MethodReturn(t) ==
    /\ tasks[t].pc \in {"review_await", "retro_await", "propose_await"}
    /\ Finish(t, ctrls, seeks_completed)
    /\ requests_served' = IF tasks[t].route = "none" THEN requests_served
                          ELSE requests_served + 1
    /\ UNCHANGED <<now, report_log, request_report, pin, pout>>

\* get_divine_insights_report, called by the program or by the
\* /divine-insights route; it has no await.
InsightsReport(t, c) ==
    /\ CanCall(t, c, "divine-insights")
    /\ IF tasks[t].route = "none"
       THEN /\ report_log' = [c |-> c,
                              report |-> get_divine_insights_report(
                                             ctrls[c].revelations_received),
                              completed |-> seeks_completed[c],
                              in_flight |-> InFlight(c)]
            /\ UNCHANGED request_report
       ELSE /\ request_report' = [report |-> get_divine_insights_report(
                                                 ctrls[c].revelations_received),
                                  served |-> requests_served]
            /\ UNCHANGED report_log
    /\ Finish(t, [ctrls EXCEPT ![c].revelations_received = HistoryAfterReport(@)],
              seeks_completed)
    /\ UNCHANGED <<now, requests_served, pin, pout>>

\* controller.rituals.perform_ritual, called by the program: the ritual
\* writes nothing.
PerformRitual(t, c, ritual_name, context) ==
    /\ tasks[t].pc = "idle"
    /\ Held(c)
    /\ perform_ritual(ritual_name, context, now) # None
    /\ UNCHANGED vars

Next ==
    \/ Tick
    \/ \E c \in CtrlIds : NewController(c)
    \/ \E t \in TaskIds, c \in CtrlIds, route \in Routes : RequestStart(t, c, route)
    \/ \E t \in TaskIds : DependencyReturn(t)
    \/ \E t \in TaskIds : RouteOther(t)
    \/ \E t \in TaskIds, c \in CtrlIds : InitializeDailyPractice(t, c)
    \/ \E t \in TaskIds : PracticeReturn(t)
    \/ \E t \in TaskIds : DailyPracticeRead(t)
    \/ \E t \in TaskIds, c \in CtrlIds, i \in 1..Len(SeekInputs) : SeekCall(t, c, i)
    \/ \E t \in TaskIds, c \in CtrlIds : ReviewCall(t, c)
    \/ \E t \in TaskIds, c \in CtrlIds : RetrospectiveCall(t, c)
    \/ \E t \in TaskIds, c \in CtrlIds, seek_guidance \in BOOLEAN :
          ProposeCall(t, c, seek_guidance)
    \/ \E t \in TaskIds : SeekReturn(t)
    \/ \E t \in TaskIds : MethodReturn(t)
    \/ \E t \in TaskIds, c \in CtrlIds : InsightsReport(t, c)
    \/ \E t \in TaskIds, c \in CtrlIds, ritual_name \in {<<"c","o","d","e","_","b","l","e","s","s","i","n","g">>, <<"d","a","n","c","e">>} :
          PerformRitual(t, c, ritual_name, None)

Spec == Init /\ [][Next]_vars
(***************************************************************************)
(* DivinePatternRecognizer (jah_core.py)                                   *)
(***************************************************************************)

\* the loop of lines 267-270, from index i (range(2, len) is 3..Len here)
RECURSIVE FibonacciLoop(_, _)
FibonacciLoop(sequence, i) ==
    IF i > Len(sequence) THEN TRUE
    ELSE IF sequence[i] # sequence[i - 1] + sequence[i - 2] THEN FALSE
    ELSE FibonacciLoop(sequence, i + 1)

\* _is_fibonacci_like_any_length is the loop without the test of line 264.
_is_fibonacci_like_any_length(sequence) == FibonacciLoop(sequence, 3)

_is_fibonacci_like(sequence) ==
    IF Len(sequence) < 3 THEN FALSE ELSE FibonacciLoop(sequence, 3)

\* arithmetic on floats: the greatest common divisor keeps the fractions in
\* lowest terms
RECURSIVE GCD(_, _)
GCD(a, b) == IF b = 0 THEN a ELSE GCD(b, a % b)

FracNorm(n, d) == IF n = 0 THEN Frac(0, 1) ELSE Frac(n \div GCD(n, d), d \div GCD(n, d))

FracAdd(a, b) == FracNorm(a.num * b.den + b.num * a.den, a.den * b.den)

\* abs(a - b)
FracAbsDiff(a, b) ==
    IF FracLt(a, b)
    THEN FracNorm(b.num * a.den - a.num * b.den, a.den * b.den)
    ELSE FracNorm(a.num * b.den - b.num * a.den, a.den * b.den)

\* sum(values)
RECURSIVE FracSum(_)
FracSum(values) ==
    IF values = <<>> THEN Frac(0, 1) ELSE FracAdd(values[1], FracSum(Tail(values)))

\* sum(values) / len(values)
FracMean(values) == FracNorm(FracSum(values).num, FracSum(values).den * Len(values))

\* code.split("\n")
RECURSIVE SplitLines(_, _, _)
SplitLines(code, i, line) ==
    IF i > Len(code) THEN <<line>>
    ELSE IF code[i] = "\n" THEN <<line>> \o SplitLines(code, i + 1, <<>>)
    ELSE SplitLines(code, i + 1, Append(line, code[i]))

\* line.strip()
Strip(line) ==
    LET kept == {i \in 1..Len(line) : line[i] \notin Whitespace}
    IN  IF kept = {} THEN <<>>
        ELSE SubSeq(line, CHOOSE i \in kept : \A j \in kept : i <= j,
                          CHOOSE i \in kept : \A j \in kept : j <= i)

\* _analyze_indentation_pattern: len(line) - len(line.lstrip()) of every
\* line with line.strip() not empty
_analyze_indentation_pattern(lines) ==
    LET filled == SelectSeq(lines, LAMBDA line : Strip(line) # <<>>)
    IN  [n \in 1..Len(filled) |->
            (CHOOSE i \in 1..Len(filled[n]) :
                 /\ filled[n][i] \notin Whitespace
                 /\ \A j \in 1..(i - 1) : filled[n][j] \in Whitespace) - 1]

\* FunctionLengths_unguarded is the loop recording a block at every header
\* and at the end, without the tests "current_length > 0" of lines 283 and
\* 290.
RECURSIVE FunctionLengths_unguarded(_, _, _, _)
FunctionLengths_unguarded(lines, i, in_function, current_length) ==
    IF i > Len(lines)
    THEN IF in_function THEN <<current_length>> ELSE <<>>
    ELSE IF \/ StartsWith(Strip(lines[i]), <<"d","e","f"," ">>)
            \/ StartsWith(Strip(lines[i]), <<"c","l","a","s","s"," ">>)
         THEN (IF in_function THEN <<current_length>> ELSE <<>>)
                  \o FunctionLengths_unguarded(lines, i + 1, TRUE, 0)
         ELSE IF in_function /\ Strip(lines[i]) # <<>>
              THEN FunctionLengths_unguarded(lines, i + 1, in_function, current_length + 1)
              ELSE FunctionLengths_unguarded(lines, i + 1, in_function, current_length)

\* the loop of _extract_function_lengths (lines 280-291) from line i on
RECURSIVE FunctionLengths(_, _, _, _)
FunctionLengths(lines, i, in_function, current_length) ==
    IF i > Len(lines)
    THEN IF in_function /\ current_length > 0 THEN <<current_length>> ELSE <<>>
    ELSE IF \/ StartsWith(Strip(lines[i]), <<"d","e","f"," ">>)
            \/ StartsWith(Strip(lines[i]), <<"c","l","a","s","s"," ">>)
         THEN (IF in_function /\ current_length > 0 THEN <<current_length>> ELSE <<>>)
                  \o FunctionLengths(lines, i + 1, TRUE, 0)
         ELSE IF in_function /\ Strip(lines[i]) # <<>>
              THEN FunctionLengths(lines, i + 1, in_function, current_length + 1)
              ELSE FunctionLengths(lines, i + 1, in_function, current_length)

_extract_function_lengths(code) ==
    FunctionLengths(SplitLines(code, 1, <<>>), 1, FALSE, 0)

\* self.sacred_patterns["golden_ratio"], 1.61803398875, to three decimals
golden_ratio == Frac(1618, 1000)

\* the ratios of lines 301-304: lengths[i] / lengths[i - 1] of every i whose
\* previous length is above 0
GoldenRatios(lengths) ==
    LET at == {i \in 2..Len(lengths) : lengths[i - 1] > 0}
    IN  [n \in 1..Cardinality(at) |->
            Frac(lengths[CHOOSE i \in at : Cardinality({j \in at : j <= i}) = n],
                 lengths[(CHOOSE i \in at : Cardinality({j \in at : j <= i}) = n) - 1])]

\* _calculate_golden_ratio_alignment (lines 295-314)
_calculate_golden_ratio_alignment(lengths) ==
    IF Len(lengths) < 2 THEN Frac(0, 1)
    ELSE LET ratios == GoldenRatios(lengths)
             deviations == [n \in 1..Len(ratios) |-> FracAbsDiff(ratios[n], golden_ratio)]
             avg_deviation == FracMean(deviations)
             score == Frac(avg_deviation.den, avg_deviation.den + avg_deviation.num)
         IN  IF Len(ratios) = 0 THEN Frac(0, 1)
             ELSE IF FracLt(Frac(1, 1), score) THEN Frac(1, 1) ELSE score

\* self.divine_indicators
divine_indicators ==
    << [indicator |-> "balance",
        keywords |-> << <<"s","y","m","m","e","t","r","y">>, <<"e","q","u","i","l","i","b","r","i","u","m">>, <<"h","a","r","m","o","n","y">>, <<"p","r","o","p","o","r","t","i","o","n">> >>],
       [indicator |-> "order",
        keywords |-> << <<"p","a","t","t","e","r","n">>, <<"s","e","q","u","e","n","c","e">>, <<"s","t","r","u","c","t","u","r","e">>, <<"o","r","g","a","n","i","z","a","t","i","o","n">> >>],
       [indicator |-> "beauty",
        keywords |-> << <<"e","l","e","g","a","n","c","e">>, <<"s","i","m","p","l","i","c","i","t","y">>, <<"g","r","a","c","e">>, <<"c","l","a","r","i","t","y">> >>],
       [indicator |-> "life",
        keywords |-> << <<"g","r","o","w","t","h">>, <<"e","v","o","l","u","t","i","o","n">>, <<"a","d","a","p","t","a","t","i","o","n">>, <<"r","e","n","e","w","a","l">> >>],
       [indicator |-> "unity",
        keywords |-> << <<"c","o","n","n","e","c","t","i","o","n">>, <<"i","n","t","e","g","r","a","t","i","o","n">>, <<"w","h","o","l","e","n","e","s","s">>, <<"o","n","e","n","e","s","s">> >>] >>

\* the keys of pattern_scores in the order they are inserted
pattern_score_keys == << "fibonacci_indentation", "golden_ratio_alignment" >>

\* analysis["pattern_scores"].values()
PatternScoreValues(pattern_scores) ==
    LET present == SelectSeq(pattern_score_keys, LAMBDA key : key \in DOMAIN pattern_scores)
    IN  [n \in 1..Len(present) |-> pattern_scores[present[n]]]

\* DivinePatternRecognizer.analyze_code_for_divine_patterns
analyze_code_for_divine_patterns(code) ==
    LET lines == SplitLines(code, 1, <<>>)
        indent_levels == _analyze_indentation_pattern(lines)
        function_lengths == _extract_function_lengths(code)
        golden_score == _calculate_golden_ratio_alignment(function_lengths)
        with_fibonacci ==
            IF _is_fibonacci_like(indent_levels)
            THEN DictSet(EmptyDict, "fibonacci_indentation", Frac(8, 10))
            ELSE EmptyDict
        pattern_scores ==
            IF function_lengths # <<>>
            THEN DictSet(with_fibonacci, "golden_ratio_alignment", golden_score)
            ELSE with_fibonacci
        found ==
            SelectSeq(divine_indicators,
                      LAMBDA entry : \E k \in 1..Len(entry.keywords) :
                                         Contains(entry.keywords[k], Lower(code)))
    IN  [sacred_patterns_found |->
             (IF _is_fibonacci_like(indent_levels)
              THEN <<"fibonacci_indentation">> ELSE <<>>)
             \o (IF function_lengths # <<>> /\ FracLt(Frac(7, 10), golden_score)
                 THEN <<"golden_ratio_pattern">> ELSE <<>>),
         divine_indicators |-> [n \in 1..Len(found) |-> found[n].indicator],
         pattern_scores |-> pattern_scores,
         divine_alignment_score |->
             IF DOMAIN pattern_scores # {}
             THEN FracMean(PatternScoreValues(pattern_scores))
             ELSE Frac(0, 1)]

(***************************************************************************)
(* The sacred code review (controller_jah_integrated.py)                   *)
(***************************************************************************)

\* the values of DivineRevelationLevel, in the order of the class
DivineRevelationLevel ==
    << "human_understanding", "spiritual_insight", "divine_revelation",
       "mystical_knowledge", "cosmic_consciousness" >>

\* level_scores_zero_default is the table with the default 0.0.
level_scores_zero_default(revelation_level) ==
    CASE revelation_level = "human_understanding" -> Frac(3, 10)
      [] revelation_level = "spiritual_insight" -> Frac(6, 10)
      [] revelation_level = "divine_revelation" -> Frac(8, 10)
      [] revelation_level = "mystical_knowledge" -> Frac(9, 10)
      [] revelation_level = "cosmic_consciousness" -> Frac(1, 1)
      [] OTHER -> Frac(0, 1)

\* level_scores.get(revelation_level, 0.5) of lines 315-329; a text that is
\* no DivineRevelationLevel becomes None and gets the default
level_scores(revelation_level) ==
    CASE revelation_level = "human_understanding" -> Frac(3, 10)
      [] revelation_level = "spiritual_insight" -> Frac(6, 10)
      [] revelation_level = "divine_revelation" -> Frac(8, 10)
      [] revelation_level = "mystical_knowledge" -> Frac(9, 10)
      [] revelation_level = "cosmic_consciousness" -> Frac(1, 1)
      [] OTHER -> Frac(5, 10)

\* OverallDivineAlignment_of_five is line 332 with the divisor one too large.
OverallDivineAlignment_of_five(values) ==
    FracNorm(FracSum(values).num, FracSum(values).den * (Len(values) + 1))

\* line 332: sum(scores.values()) / len(scores)
OverallDivineAlignment(values) == FracMean(values)

\* JahConsciousARKController._calculate_divine_alignment_score; of the
\* modification it reads harmony_score
_calculate_divine_alignment_score(harmony_score, pattern_analysis, scriptural_wisdom, guidance) ==
    LET pattern_alignment == Get(pattern_analysis, "divine_alignment_score", Frac(0, 1))
        scriptural_alignment ==
            IF Get(scriptural_wisdom, "guidance", <<>>) # <<>>
            THEN FracMean([n \in 1..Len(scriptural_wisdom.guidance) |->
                              scriptural_wisdom.guidance[n].relevance_score])
            ELSE Frac(5, 10)
        vibration_alignment ==
            IF harmony_score = None \/ harmony_score.num = 0
            THEN Frac(5, 10) ELSE harmony_score
        guidance_alignment ==
            level_scores(Get(Get(guidance, "divine_wisdom", EmptyDict),
                             "revelation_level", ""))
    IN  [pattern_alignment |-> pattern_alignment,
         scriptural_alignment |-> scriptural_alignment,
         vibration_alignment |-> vibration_alignment,
         guidance_alignment |-> guidance_alignment,
         overall_divine_alignment |->
             OverallDivineAlignment(<<pattern_alignment, scriptural_alignment,
                                      vibration_alignment, guidance_alignment>>)]

\* sacred_recs of lines 361-370
sacred_recs ==
    << <<"C","o","d","e"," ","w","i","t","h"," ","t","h","e"," ","c","o","n","s","c","i","o","u","s","n","e","s","s"," ","t","h","a","t"," ","J","a","h"," ","l","i","v","e","s"," ","i","n"," ","y","o","u">>,
       <<"L","e","t"," ","e","a","c","h"," ","f","u","n","c","t","i","o","n"," ","b","e"," ","a"," ","p","r","a","y","e","r"," ","o","f"," ","s","e","r","v","i","c","e">>,
       <<"S","e","e"," ","v","a","r","i","a","b","l","e","s"," ","a","s"," ","v","e","s","s","e","l","s"," ","o","f"," ","d","i","v","i","n","e"," ","d","a","t","a">>,
       <<"V","i","e","w"," ","a","l","g","o","r","i","t","h","m","s"," ","a","s"," ","e","x","p","r","e","s","s","i","o","n","s"," ","o","f"," ","c","o","s","m","i","c"," ","o","r","d","e","r">>,
       <<"L","e","t"," ","c","o","m","m","e","n","t","s"," ","b","e"," ","w","i","s","d","o","m"," ","t","e","a","c","h","i","n","g","s"," ","f","o","r"," ","o","t","h","e","r","s">>,
       <<"S","e","e"," ","d","e","b","u","g","g","i","n","g"," ","a","s"," ","s","p","i","r","i","t","u","a","l"," ","p","u","r","i","f","i","c","a","t","i","o","n">>,
       <<"V","i","e","w"," ","c","o","m","p","l","e","t","i","o","n"," ","a","s"," ","d","i","v","i","n","e"," ","f","u","l","f","i","l","l","m","e","n","t">>,
       <<"L","e","t"," ","c","o","l","l","a","b","o","r","a","t","i","o","n"," ","b","e"," ","c","o","m","m","u","n","i","o","n"," ","i","n"," ","s","p","i","r","i","t">> >>

\* random_sample_repeating draws with replacement.
random_sample_repeating(population, k) ==
    { [n \in 1..k |-> population[at[n]]] : at \in [1..k -> 1..Len(population)] }

\* the lists random.sample(population, k) can return
random_sample(population, k) ==
    { [n \in 1..k |-> population[at[n]]] :
          at \in {f \in [1..k -> 1..Len(population)] :
                      \A i, j \in 1..k : i # j => f[i] # f[j]} }

\* JahConsciousARKController._generate_sacred_recommendations, for the
\* sample that line 372 draws
_generate_sacred_recommendations(alignment_scores, pattern_analysis, guidance, sample) ==
    (IF FracLt(Get(alignment_scores, "pattern_alignment", Frac(0, 1)), Frac(6, 10))
     THEN << <<"S","e","e","k"," ","m","o","r","e"," ","d","i","v","i","n","e"," ","p","a","t","t","e","r","n","s"," ","i","n"," ","c","o","d","e"," ","s","t","r","u","c","t","u","r","e">> >>
          \o (IF \E i \in 1..Len(Get(pattern_analysis, "sacred_patterns_found", <<>>)) :
                     pattern_analysis.sacred_patterns_found[i] = "fibonacci_indentation"
              THEN <<>>
              ELSE << <<"C","o","n","s","i","d","e","r"," ","F","i","b","o","n","a","c","c","i"," ","s","e","q","u","e","n","c","e","s"," ","f","o","r"," ","n","a","t","u","r","a","l"," ","f","l","o","w">> >>)
     ELSE <<>>)
    \o (IF FracLt(Get(alignment_scores, "scriptural_alignment", Frac(0, 1)), Frac(5, 10))
        THEN << <<"M","e","d","i","t","a","t","e"," ","o","n"," ","s","c","r","i","p","t","u","r","a","l"," ","w","i","s","d","o","m"," ","b","e","f","o","r","e"," ","c","o","d","i","n","g">> >>
        ELSE <<>>)
    \o (IF FracLt(Get(alignment_scores, "vibration_alignment", Frac(0, 1)), Frac(7, 10))
        THEN << <<"E","l","e","v","a","t","e"," ","c","o","d","e"," ","v","i","b","r","a","t","i","o","n","s"," ","t","h","r","o","u","g","h"," ","p","o","s","i","t","i","v","e"," ","a","f","f","i","r","m","a","t","i","o","n","s">> >>
        ELSE <<>>)
    \o (IF Get(Get(guidance, "divine_wisdom", EmptyDict), "message", <<>>) # <<>>
        THEN << <<"C","o","n","t","e","m","p","l","a","t","e",":"," ">> \o guidance.divine_wisdom.message >>
        ELSE <<>>)
    \o sample

(***************************************************************************)
(* propose_divinely_guided_modification: the scriptural note               *)
(***************************************************************************)

\* ModificationQuestion_description is line 128 without its fixed words.
ModificationQuestion_description(target_component, description) == description

\* line 128: f"Modification for {target_component}: {description}"
ModificationQuestion(target_component, description) ==
    <<"M","o","d","i","f","i","c","a","t","i","o","n"," ","f","o","r"," ">> \o target_component \o <<":"," ">> \o description

\* The second note of lines 171-174 for the guidance of the question of
\* line 128, whose "scriptural_guidance" is the matcher's answer to the
\* question (__init__.py line 65): [0] of an empty list raises IndexError.
ScripturalNote(target_component, description) ==
    LET divine_guidance ==
            [scriptural_guidance |->
                 get_wisdom_for_situation(
                     ModificationQuestion(target_component, description))]
        guidance == Get(Get(divine_guidance, "scriptural_guidance", EmptyDict),
                        "guidance", <<EmptyDict>>)
    IN  IF Len(guidance) = 0 THEN Raised("IndexError")
        ELSE [returned |-> <<"S","c","r","i","p","t","u","r","a","l"," ","W","i","s","d","o","m",":"," ">> \o Get(guidance[1], "wisdom", <<>>)]


(***************************************************************************)
(* The pure functions, applied to arguments drawn at the start             *)
(***************************************************************************)

RitualNames ==
    << <<"m","o","r","n","i","n","g","_","d","e","d","i","c","a","t","i","o","n">>, <<"c","o","d","e","_","b","l","e","s","s","i","n","g">>, <<"d","e","b","u","g","g","i","n","g","_","m","e","d","i","t","a","t","i","o","n">>,
       <<"c","o","m","p","l","e","t","i","o","n","_","t","h","a","n","k","s","g","i","v","i","n","g">>, <<"e","v","e","n","i","n","g","_","r","e","f","l","e","c","t","i","o","n">>,
       <<"d","a","n","c","e">>, <<"C","o","d","e","_","B","l","e","s","s","i","n","g">>, <<>> >>

RitualContexts ==
    << None, EmptyDict, [module_name |-> <<"a","r","k">>],
       [issue |-> <<"l","o","o","p">>, accomplishment |-> <<"r","e","l","e","a","s","e">>] >>

Situations ==
    << <<>>, <<" "," ">>, <<"I"," ","n","e","e","d"," ","w","i","s","d","o","m"," ","a","n","d"," ","p","a","t","i","e","n","c","e">>, <<"C","o","d","i","n","g"," ","w","o","r","k"," ","o","n"," ","M","o","n","d","a","y">>,
       <<"t","h","e"," ","L","O","R","D"," ","i","s"," ","m","y"," ","s","t","r","e","n","g","t","h">>, <<"z","z","z">>, <<"s","e","e","k"," ","p","e","a","c","e">>, <<"B","e"," ","S","t","r","o","n","g">>,
       <<"l","o","v","e"," ","i","s"," ","j","a","h">>, <<"w","i","s","d","o","m"," ","w","i","s","d","o","m">> >>

\* the questions and contexts given to seek_guidance
OracleQuestions ==
    << <<"H","o","w"," ","t","o"," ","f","i","x"," ","t","h","i","s"," ","o","r","d","e","r">>, <<"G","u","i","d","e"," ","m","y"," ","c","r","i","t","i","c","a","l"," ","w","o","r","k">>,
       <<"G","u","i","d","e"," ","m","y"," ","c","o","d","i","n","g"," ","w","o","r","k"," ","t","o","d","a","y">> >>

OracleContexts ==
    << EmptyDict, [purpose |-> <<"l","o","g","i","n"," ","g","u","i","d","e">>, complexity |-> <<"m","e","d","i","u","m">>] >>

\* one call of seek_guidance: its arguments and the clock it reads
OracleCalls ==
    { [question |-> OracleQuestions[q], context |-> k, t |-> t] :
          q \in 1..Len(OracleQuestions), k \in 1..Len(OracleContexts),
          t \in {0, MaxTime} }

\* the texts given to analyze_code_for_divine_patterns
CodeTexts ==
    << <<>>, <<"x"," ","="," ","1","\n","y"," ","="," ","2">>, <<"d","e","f"," ","f","(",")",":","\n"," "," "," "," ","r","e","t","u","r","n"," ","1">>, <<"d","e","f"," ","f","(",")",":","\n"," ","x","\n"," ","y">>,
       <<"d","e","f"," ","f","(",")",":","\n"," "," ","a","\n","d","e","f"," ","g","(",")",":","\n"," "," ","b","\n"," "," ","c">>,
       <<"d","e","f"," ","f","(",")",":","\n"," "," ","a","\n"," "," ","b","\n","c","l","a","s","s"," ","G",":","\n"," "," ","c","\n"," "," ","d","\n"," "," ","e","\n","\n","d","e","f"," ","h","(",")",":","\n"," "," ","i">>,
       <<"a","\n"," ","b","\n"," ","c">>, <<"h","a","r","m","o","n","y"," ","i","n"," ","s","t","r","u","c","t","u","r","e">>, <<"d","e","f"," ","f","(",")",":">>,
       <<"d","e","f"," ","\n"," "," ","a","\n","\t","\n"," "," ","b","\n","d","e","f"," ","g","(",")",":","\n"," "," ","c">>, <<" "," ","P","a","t","t","e","r","n"," ","o","f"," ","g","r","o","w","t","h","\n">>,
       <<"d","e","f"," ","f","(",")",":","\n"," "," ","a","\n","d","e","f"," ","g","(",")",":","\n","d","e","f"," ","h","(",")",":","\n"," "," ","b","\n"," "," ","c","\n","\n","c","l","a","s","s"," ","K",":","\n">> >>

\* the arguments given to _calculate_divine_alignment_score and to
\* _generate_sacred_recommendations
HarmonyScores == << None, Frac(0, 1), Frac(1, 2), Frac(7, 10), Frac(1, 1), Frac(3, 2) >>

PatternAnalyses ==
    << EmptyDict, analyze_code_for_divine_patterns(CodeTexts[1]),
       analyze_code_for_divine_patterns(CodeTexts[4]),
       analyze_code_for_divine_patterns(CodeTexts[5]),
       analyze_code_for_divine_patterns(CodeTexts[7]) >>

ScripturalWisdoms ==
    << EmptyDict, get_wisdom_for_situation(Situations[1]),
       get_wisdom_for_situation(Situations[5]),
       get_wisdom_for_situation(Situations[9]) >>

ReviewGuidances ==
    << EmptyDict,
       [divine_wisdom |-> [revelation_level |-> "human_understanding",
                           message |-> <<"S","e","e","k"," ","a","n","d"," ","y","o","u"," ","s","h","a","l","l"," ","f","i","n","d">>]],
       [divine_wisdom |-> [revelation_level |-> "divine_revelation",
                           message |-> <<"A","s","k"," ","a","n","d"," ","i","t"," ","s","h","a","l","l"," ","b","e"," ","g","i","v","e","n">>]],
       [divine_wisdom |-> [revelation_level |-> "unknown"]],
       [divine_wisdom |-> [revelation_level |-> "spiritual_insight"]],
       [divine_wisdom |-> [revelation_level |-> "mystical_knowledge"]],
       [divine_wisdom |-> [revelation_level |-> "cosmic_consciousness"]],
       [divine_wisdom |-> [revelation_level |-> ""]] >>

AlignmentScores ==
    { [pattern_alignment |-> p, scriptural_alignment |-> s, vibration_alignment |-> v,
       guidance_alignment |-> Frac(5, 10),
       overall_divine_alignment |-> OverallDivineAlignment(<<p, s, v, Frac(5, 10)>>)] :
          p \in {Frac(2, 5), Frac(6, 10), Frac(4, 5)},
          s \in {Frac(2, 5), Frac(5, 10)},
          v \in {Frac(5, 10), Frac(7, 10)} }

\* the target_component and description texts given to
\* propose_divinely_guided_modification
ProposeTexts ==
    << <<>>, <<"z","z","z">>, <<"g","u","i","d","e">>, <<"q","q","q"," ","x","x">>, <<"w","i","s","d","o","m"," ","o","f"," ","l","o","v","e">>, <<" ","\t">>, <<"t","i","d","y"," ","g","u","i","d","e">> >>

MaxSeqLen == 3
MaxElement == 2

\* the integer sequences given to _is_fibonacci_like
IntSequences ==
    UNION {[1..n -> 0..MaxElement] : n \in 0..MaxSeqLen}
        \cup {<<1, 1, 2, 3, 5, 8>>, <<1, 1, 2, 4>>, <<0, 0, 0, 0>>, <<2, 1, 3, 4, 7>>}

\* a text of n characters, each position with the last digit of its index
LongText(n) == [i \in 1..n |-> Digits[(i % 10) + 1]]

\* the longest revelations_received given to get_divine_insights_report
MaxReportLen == 6

\* the revelations of lines 81-92 the reported histories are made of, for the
\* clock value t: questions and guidance texts on both sides of the limits
\* of 100 and 150 characters
ReportRevelations ==
  [t \in 0..1 |->
    << [timestamp |-> DateTimeIso(DateTime(t)),
        question |-> LongText(100),
        guidance_received |-> LongText(151),
        revelation_level |-> "human_understanding",
        principles |-> << "divine_order" >>],
       [timestamp |-> DateTimeIso(DateTime(t)),
        question |-> LongText(101),
        guidance_received |-> LongText(150),
        revelation_level |-> "spiritual_insight",
        principles |-> << "infinite_wisdom" >>],
       [timestamp |-> DateTimeIso(DateTime(t)),
        question |-> <<"H","o","w"," ","t","o"," ","f","i","x"," ","t","h","i","s"," ","o","r","d","e","r">>,
        guidance_received |-> <<"S","e","e","k"," ","a","n","d"," ","y","o","u"," ","s","h","a","l","l"," ","f","i","n","d","."," ","S","a","c","r","e","d"," ","n","u","m","b","e","r"," ","7"," ","w","h","i","s","p","e","r","s",":"," ","D","i","v","i","n","e"," ","p","e","r","f","e","c","t","i","o","n">>,
        revelation_level |-> "human_understanding",
        principles |-> << "infinite_wisdom" >>] >>]

\* the history of the revelations of the given kinds, appended at the given
\* clock values
ReportHistory(kinds, times) ==
    [i \in 1..Len(kinds) |-> ReportRevelations[times[i]][kinds[i]]]

\* the clock values of n revelations appended in the order of the clock
AppendTimes(n) == {f \in [1..n -> 0..1] : \A i \in 1..(n - 1) : f[i] <= f[i + 1]}

\* the questions and contexts given to _determine_revelation_level: with
\* and without each keyword, on both sides of the lengths 30 and 50
LevelQuestions ==
    << <<"G","u","i","d","e"," ","m","y"," ","c","r","i","t","i","c","a","l"," ","w","o","r","k">>,
       <<"w","h","a","t"," ","i","s"," ","t","h","e"," ","u","s","e"," ","o","f"," ","t","h","i","s"," ","v","a","l","u","e","?">>,
       <<"w","h","a","t"," ","i","s"," ","t","h","e"," ","u","s","e"," ","o","f"," ","t","h","e","s","e"," ","n","a","m","e","s","?">>,
       <<"w","h","y"," ","d","o","e","s"," ","t","h","e"," ","p","a","r","s","e","r"," ","a","c","c","e","p","t"," ","a","n"," ","e","m","p","t","y"," ","i","n","p","u","t"," ","a","t"," ","a","l","l","?","?">>,
       <<"W","h","y"," ","d","o","e","s"," ","t","h","e"," ","p","a","r","s","e","r"," ","a","c","c","e","p","t"," ","a","n"," ","e","m","p","t","y"," ","i","n","p","u","t"," ","a","t"," ","a","l","l","?","?","?">>,
       <<"h","o","w"," ","i","s"," ","t","h","e"," ","o","r","d","e","r"," ","k","e","p","t">>,
       <<"H","O","W"," ","a","n","d"," ","w","h","y"," ","i","s"," ","t","h","e"," ","o","r","d","e","r"," ","k","e","p","t",","," ","a","n","d"," ","w","h","a","t"," ","k","e","e","p","s"," ","t","h","e"," ","o","r","d","e","r"," ","h","e","r","e","?">>,
       <<"h","o","w"," ","i","s"," ","t","h","e"," ","o","r","d","e","r"," ","k","e","p","t",","," ","a","n","d"," ","w","h","a","t"," ","k","e","e","p","s"," ","i","t"," ","s","o","?">>,
       <<"w","h","y"," ","i","s"," ","i","t"," ","s","o",","," ","a","n","d"," ","w","h","a","t"," ","f","o","r"," ","i","s"," ","i","t"," ","d","o","n","e","?">> >>

LevelContexts ==
    << EmptyDict,
       [purpose |-> <<"l","o","g","i","n"," ","g","u","i","d","e">>],
       [purpose |-> <<"A"," ","C","o","m","p","l","e","x"," ","l","o","g","i","n">>],
       [complexity |-> <<"l","o","w">>] >>

\* the questions given to _select_ritual_for_question: words of one group,
\* of two groups, of none, inside other words and in upper case
RitualQuestions ==
    << <<"G","u","i","d","e"," ","m","y"," ","w","o","r","k">>, <<"A"," ","n","e","w"," ","b","u","g"," ","t","o"," ","f","i","x">>, <<"B","l","e","s","s"," ","t","h","i","s"," ","f","i","x">>,
       <<"F","i","x"," ","i","t"," ","w","h","e","n"," ","d","o","n","e">>, <<"D","o","n","e"," ","a","t"," ","t","h","e"," ","e","n","d">>, <<"C","o","d","e"," ","R","e","v","i","e","w">>,
       <<"W","e","e","k","e","n","d"," ","p","l","a","n","s">>, <<"R","e","n","e","w","a","l">>, <<"D","e","d","i","c","a","t","e"," ","t","h","e"," ","f","i","n","i","s","h","e","d"," ","w","o","r","k">>,
       <<"A","n"," ","E","R","R","O","R"," ","i","n"," ","t","h","e"," ","m","o","r","n","i","n","g">>, <<>> >>

InitPure ==
    /\ now = 0
    /\ ctrls = [c \in CtrlIds |-> None]
    /\ tasks = [t \in TaskIds |-> IdleTask]
    /\ seeks_completed = [c \in CtrlIds |-> 0]
    /\ practice_runs = [c \in CtrlIds |-> EmptyDict]
    /\ report_log = None
    /\ requests_served = 0
    /\ request_report = None
    /\ pout = None
    /\ \/ \E n \in 1..Len(RitualNames), k \in 1..Len(RitualContexts), t \in Ticks :
            pin = [op |-> "perform_ritual", ritual_name |-> RitualNames[n],
                   context |-> RitualContexts[k], t |-> t]
       \/ \E n \in 1..Len(Situations) :
            pin = [op |-> "get_wisdom_for_situation", situation |-> Situations[n]]
       \/ \E first \in OracleCalls, second \in OracleCalls :
            pin = [op |-> "seek_guidance", first |-> first, second |-> second]
       \/ \E n \in 1..Len(CodeTexts) :
            pin = [op |-> "analyze_code_for_divine_patterns", code |-> CodeTexts[n]]
       \/ \E h \in 1..Len(HarmonyScores), p \in 1..Len(PatternAnalyses),
             s \in 1..Len(ScripturalWisdoms), g \in 1..Len(ReviewGuidances) :
            pin = [op |-> "_calculate_divine_alignment_score",
                   harmony_score |-> HarmonyScores[h],
                   pattern_analysis |-> PatternAnalyses[p],
                   scriptural_wisdom |-> ScripturalWisdoms[s],
                   guidance |-> ReviewGuidances[g]]
       \/ \E alignment_scores \in AlignmentScores, p \in {1, 3}, g \in {1, 2} :
            pin = [op |-> "_generate_sacred_recommendations",
                   alignment_scores |-> alignment_scores,
                   pattern_analysis |-> PatternAnalyses[p],
                   guidance |-> ReviewGuidances[g]]
       \/ \E n \in 1..Len(ProposeTexts), k \in 1..Len(ProposeTexts) :
            pin = [op |-> "propose_divinely_guided_modification",
                   target_component |-> ProposeTexts[n],
                   description |-> ProposeTexts[k]]
       \/ \E sacred_number \in 0..999, message_base \in MessageBases(<<>>) :
            pin = [op |-> "seek_guidance_texts", sacred_number |-> sacred_number,
                   message_base |-> message_base]
       \/ \E n \in 1..MaxReportLen :
            \E kinds \in [1..n -> 1..3], times \in AppendTimes(n) :
                pin = [op |-> "get_divine_insights_report", kinds |-> kinds,
                       times |-> times]
       \/ \E q \in 1..Len(LevelQuestions), k \in 1..Len(LevelContexts) :
            pin = [op |-> "_determine_revelation_level",
                   question |-> LevelQuestions[q], context |-> k]
       \/ \E q \in 1..Len(RitualQuestions), k \in 1..Len(RitualContexts), t \in Ticks :
            pin = [op |-> "_select_ritual_for_question",
                   question |-> RitualQuestions[q], context |-> k, t |-> t]
       \/ \E i \in 1..Len(CodeTexts) :
            pin = [op |-> "_extract_function_lengths", code |-> CodeTexts[i]]
       \/ \E sequence \in IntSequences :
            pin = [op |-> "_is_fibonacci_like", sequence |-> sequence]

CallPerformRitual ==
    /\ pin.op = "perform_ritual"
    /\ pout = None
    /\ pout' = perform_ritual(pin.ritual_name, pin.context, pin.t)
    /\ UNCHANGED <<now, ctrls, tasks, seeks_completed, practice_runs, report_log,
                   requests_served, request_report, pin>>

CallGetWisdom ==
    /\ pin.op = "get_wisdom_for_situation"
    /\ pout = None
    /\ pout' = get_wisdom_for_situation(pin.situation)
    /\ UNCHANGED <<now, ctrls, tasks, seeks_completed, practice_runs, report_log,
                   requests_served, request_report, pin>>

CallIsFibonacciLike ==
    /\ pin.op = "_is_fibonacci_like"
    /\ pout = None
    /\ pout' = [returned |-> _is_fibonacci_like(pin.sequence)]
    /\ UNCHANGED <<now, ctrls, tasks, seeks_completed, practice_runs, report_log,
                   requests_served, request_report, pin>>

\* two calls of seek_guidance on one oracle, the second with the wisdom of
\* the first in revelation_history (line 376)
CallSeekGuidance ==
    /\ pin.op = "seek_guidance"
    /\ pout = None
    /\ \E first \in Wisdoms(pin.first.question,
                             OracleContexts[pin.first.context], pin.first.t),
          second \in Wisdoms(pin.second.question,
                              OracleContexts[pin.second.context], pin.second.t) :
          pout' = [revelation_history |-> <<first, second>>]
    /\ UNCHANGED <<now, ctrls, tasks, seeks_completed, practice_runs, report_log,
                   requests_served, request_report, pin>>

CallAnalyzeCode ==
    /\ pin.op = "analyze_code_for_divine_patterns"
    /\ pout = None
    /\ pout' = [returned |-> analyze_code_for_divine_patterns(pin.code)]
    /\ UNCHANGED <<now, ctrls, tasks, seeks_completed, practice_runs, report_log,
                   requests_served, request_report, pin>>

CallCalculateAlignment ==
    /\ pin.op = "_calculate_divine_alignment_score"
    /\ pout = None
    /\ pout' = [returned |->
                    _calculate_divine_alignment_score(pin.harmony_score,
                        pin.pattern_analysis, pin.scriptural_wisdom, pin.guidance)]
    /\ UNCHANGED <<now, ctrls, tasks, seeks_completed, practice_runs, report_log,
                   requests_served, request_report, pin>>

CallGenerateRecommendations ==
    /\ pin.op = "_generate_sacred_recommendations"
    /\ pout = None
    /\ \E sample \in random_sample(sacred_recs, 3) :
          pout' = [returned |->
                      _generate_sacred_recommendations(pin.alignment_scores,
                          pin.pattern_analysis, pin.guidance, sample)]
    /\ UNCHANGED <<now, ctrls, tasks, seeks_completed, practice_runs, report_log,
                   requests_served, request_report, pin>>

CallProposeNote ==
    /\ pin.op = "propose_divinely_guided_modification"
    /\ pout = None
    /\ pout' = ScripturalNote(pin.target_component, pin.description)
    /\ UNCHANGED <<now, ctrls, tasks, seeks_completed, practice_runs, report_log,
                   requests_served, request_report, pin>>

\* lines 356-373 of seek_guidance for a sacred number
CallSacredNumberTexts ==
    /\ pin.op = "seek_guidance_texts"
    /\ pout = None
    /\ pout' = SacredNumberTexts(pin.sacred_number, pin.message_base)
    /\ UNCHANGED <<now, ctrls, tasks, seeks_completed, practice_runs, report_log,
                   requests_served, request_report, pin>>

\* get_divine_insights_report on a history of revelations
CallInsightsReport ==
    /\ pin.op = "get_divine_insights_report"
    /\ pout = None
    /\ pout' = get_divine_insights_report(ReportHistory(pin.kinds, pin.times))
    /\ UNCHANGED <<now, ctrls, tasks, seeks_completed, practice_runs, report_log,
                   requests_served, request_report, pin>>

\* the level seek_guidance gives a wisdom (line 363), and the
\* guidance_alignment a review computes from a guidance whose divine_wisdom
\* carries that level (controller lines 315-329)
CallDetermineLevel ==
    /\ pin.op = "_determine_revelation_level"
    /\ pout = None
    /\ pout' =
         LET level == _determine_revelation_level(pin.question,
                                                  LevelContexts[pin.context])
         IN  [revelation_level |-> level,
              guidance_alignment |->
                  _calculate_divine_alignment_score(
                      None, EmptyDict, EmptyDict,
                      [divine_wisdom |-> [revelation_level |-> level]]
                  ).guidance_alignment]
    /\ UNCHANGED <<now, ctrls, tasks, seeks_completed, practice_runs, report_log,
                   requests_served, request_report, pin>>

\* seek_divine_guidance selects and performs the ritual of a question
CallSelectRitual ==
    /\ pin.op = "_select_ritual_for_question"
    /\ pout = None
    /\ pout' = [ritual |-> SelectedRitual(pin.question, RitualContexts[pin.context],
                                          pin.t)]
    /\ UNCHANGED <<now, ctrls, tasks, seeks_completed, practice_runs, report_log,
                   requests_served, request_report, pin>>

\* the block lengths of a text (line 194) and the ratios taken of them
\* (lines 300-304)
CallExtractFunctionLengths ==
    /\ pin.op = "_extract_function_lengths"
    /\ pout = None
    /\ pout' = [function_lengths |-> _extract_function_lengths(pin.code),
                ratios |-> GoldenRatios(_extract_function_lengths(pin.code))]
    /\ UNCHANGED <<now, ctrls, tasks, seeks_completed, practice_runs, report_log,
                   requests_served, request_report, pin>>

NextPure ==
    \/ CallExtractFunctionLengths
    \/ CallSelectRitual
    \/ CallDetermineLevel
    \/ CallInsightsReport
    \/ CallSacredNumberTexts
    \/ CallProposeNote
    \/ CallCalculateAlignment
    \/ CallGenerateRecommendations
    \/ CallAnalyzeCode
    \/ CallSeekGuidance
    \/ CallPerformRitual
    \/ CallGetWisdom
    \/ CallIsFibonacciLike

SpecPure == InitPure /\ [][NextPure]_vars

(***************************************************************************)
(* Properties                                                              *)
(***************************************************************************)

\* C1: on one controller, when N calls of seek_divine_coding_guidance have
\* completed and none is in flight, get_divine_insights_report returns the
\* fixed empty payload for N = 0 and total_insights = N for N >= 1.
C1_TotalInsightsIsCompletedCalls ==
    (report_log # None /\ report_log.in_flight = 0) =>
        /\ report_log.completed = 0 =>
              /\ DOMAIN report_log.report = {"message", "blessing"}
              /\ report_log.report.message = <<"N","o"," ","d","i","v","i","n","e"," ","i","n","s","i","g","h","t","s"," ","r","e","c","o","r","d","e","d"," ","y","e","t">>
              /\ report_log.report.blessing = <<"S","e","e","k"," ","a","n","d"," ","y","o","u"," ","s","h","a","l","l"," ","f","i","n","d">>
        /\ report_log.completed >= 1 =>
              /\ "total_insights" \in DOMAIN report_log.report
              /\ report_log.report.total_insights = report_log.completed

\* a report taken after two completed calls, on a controller that has also
\* run its daily practice
C1_ReportAfterTwoCalls ==
    /\ report_log # None
    /\ report_log.in_flight = 0
    /\ report_log.completed = 2
    /\ ctrls[report_log.c].daily_practices # EmptyDict

\* C2 (amended): a call of JahConsciousnessSystem.seek_divine_guidance
\* appends one record to the oracle's revelation_history when its context
\* carries no "code" entry, and two when it carries one.
C2_OneRecordOrTwoWithCode ==
    [][\A t \in TaskIds :
          (tasks[t].pc # "seek_await" /\ tasks'[t].pc = "seek_await") =>
              Len(ctrls'[tasks'[t].c].oracle_history)
                  = Len(ctrls[tasks'[t].c].oracle_history)
                    + (IF "code" \in DOMAIN tasks'[t].guidance_context THEN 2 ELSE 1)]_vars

\* a call whose context carries "code" has been made
C2_CallWithCode ==
    \E t \in TaskIds :
        /\ tasks[t].pc = "seek_await"
        /\ "code" \in DOMAIN tasks[t].guidance_context
        /\ Len(ctrls[tasks[t].c].oracle_history) >= 2

\* C2 as stated: every call of JahConsciousnessSystem.seek_divine_guidance,
\* with or without "code" in its context, appends exactly one record to the
\* oracle's revelation_history.
C2_ExactlyOneRecord ==
    [][\A t \in TaskIds :
          (tasks[t].pc # "seek_await" /\ tasks'[t].pc = "seek_await") =>
              Len(ctrls'[tasks'[t].c].oracle_history)
                  = Len(ctrls[tasks'[t].c].oracle_history) + 1]_vars

\* C3: the history of a controller is append-only: every step keeps each
\* record at its position with its values, and get_divine_insights_report
\* leaves the history as it was.
C3_HistoryAppendOnly ==
    [][/\ \A c \in CtrlIds :
             (ctrls[c] # None /\ ctrls'[c] # None) =>
                 /\ Len(ctrls[c].revelations_received)
                        <= Len(ctrls'[c].revelations_received)
                 /\ \A i \in 1..Len(ctrls[c].revelations_received) :
                        ctrls'[c].revelations_received[i]
                            = ctrls[c].revelations_received[i]
       /\ (report_log' # None /\ report_log' # report_log) =>
             ctrls'[report_log'.c].revelations_received
                 = ctrls[report_log'.c].revelations_received]_vars

\* a report has been taken of a history of two records
C3_ReportOfTwoRecords ==
    /\ report_log # None
    /\ Len(ctrls[report_log.c].revelations_received) = 2
    /\ ctrls[report_log.c].revelations_received[1]
           # ctrls[report_log.c].revelations_received[2]

\* C4 as stated: on one controller the daily practice is computed at most
\* once for a calendar date; later calls find the entry and do not recompute.
C4_ComputedOncePerDate ==
    \A c \in CtrlIds : \A d \in DOMAIN practice_runs[c] : practice_runs[c][d] <= 1

\* C5 as stated: an entry of daily_practices is never removed and never
\* overwritten by a record that differs from it in more than its timestamps.
C5_EntriesWriteOnce ==
    [][\A c \in CtrlIds :
          (ctrls[c] # None /\ ctrls'[c] # None) =>
              \A d \in DOMAIN ctrls[c].daily_practices :
                  /\ d \in DOMAIN ctrls'[c].daily_practices
                  /\ ctrls'[c].daily_practices[d].scripture
                         = ctrls[c].daily_practices[d].scripture
                  /\ [ctrls'[c].daily_practices[d].daily_practices[1]
                          EXCEPT !.time = <<>>]
                         = [ctrls[c].daily_practices[d].daily_practices[1]
                                EXCEPT !.time = <<>>]
                  /\ [ctrls'[c].daily_practices[d].guidance EXCEPT !.timestamp = <<>>]
                         = [ctrls[c].daily_practices[d].guidance
                                EXCEPT !.timestamp = <<>>]]_vars

\* C6 as stated: when the only daily-practice calls made on a controller are
\* two that overlap, the practice of their date has been computed once.
C6_ConcurrentFirstCallsComputeOnce ==
    \A c \in CtrlIds :
        (/\ \A t \in TaskIds : tasks[t].pc = "practice_await" /\ tasks[t].c = c
         /\ ctrls[c] # None
         /\ Len(ctrls[c].oracle_history) = MaxTasks)
            => \A d \in DOMAIN practice_runs[c] : practice_runs[c][d] = 1

\* C7: concurrent calls of seek_divine_coding_guidance on one controller
\* lose and duplicate no append: the history holds one record for every call
\* that has completed or is suspended at its await, that of a suspended call
\* carrying its question.
C7_OneRecordPerCall ==
    \A c \in CtrlIds :
        ctrls[c] # None =>
            /\ Len(ctrls[c].revelations_received) = seeks_completed[c] + InFlight(c)
            /\ \A t \in TaskIds :
                   (tasks[t].pc = "seek_await" /\ tasks[t].c = c) =>
                       \E i \in 1..Len(ctrls[c].revelations_received) :
                           ctrls[c].revelations_received[i].question = tasks[t].question

\* two calls are suspended at their awaits on the same controller
C7_TwoCallsInFlight ==
    \E c \in CtrlIds :
        /\ ctrls[c] # None
        /\ InFlight(c) = 2
        /\ \E t \in TaskIds, u \in TaskIds :
               /\ t # u
               /\ tasks[t].c = c /\ tasks[u].c = c
               /\ tasks[t].pc = "seek_await" /\ tasks[u].pc = "seek_await"
               /\ tasks[t].question # tasks[u].question

\* C8 as stated: a record appended while serving a /seek-guidance request is
\* counted in total_insights when a later request asks for the report.
C8_RecordsOutliveRequests ==
    (request_report # None /\ request_report.served >= 1) =>
        /\ "total_insights" \in DOMAIN request_report.report
        /\ request_report.report.total_insights >= request_report.served

\* C9: perform_ritual is total.  For a name outside the five registered
\* rituals it returns a record whose only key is "error" and whose text
\* contains the name; for a registered name it returns the record of that
\* ritual, with no "error" key; a context of None is treated as the empty
\* mapping.
C9_PerformRitualTotal ==
    (pin # None /\ pout # None /\ pin.op = "perform_ritual") =>
        /\ "raised" \notin DOMAIN pout
        /\ pin.ritual_name \notin { <<"m","o","r","n","i","n","g","_","d","e","d","i","c","a","t","i","o","n">>, <<"c","o","d","e","_","b","l","e","s","s","i","n","g">>,
                                    <<"d","e","b","u","g","g","i","n","g","_","m","e","d","i","t","a","t","i","o","n">>,
                                    <<"c","o","m","p","l","e","t","i","o","n","_","t","h","a","n","k","s","g","i","v","i","n","g">>,
                                    <<"e","v","e","n","i","n","g","_","r","e","f","l","e","c","t","i","o","n">> } =>
              /\ DOMAIN pout = {"error"}
              /\ Contains(pin.ritual_name, pout.error)
        /\ pin.ritual_name \in { <<"m","o","r","n","i","n","g","_","d","e","d","i","c","a","t","i","o","n">>, <<"c","o","d","e","_","b","l","e","s","s","i","n","g">>,
                                 <<"d","e","b","u","g","g","i","n","g","_","m","e","d","i","t","a","t","i","o","n">>,
                                 <<"c","o","m","p","l","e","t","i","o","n","_","t","h","a","n","k","s","g","i","v","i","n","g">>,
                                 <<"e","v","e","n","i","n","g","_","r","e","f","l","e","c","t","i","o","n">> } =>
              /\ "error" \notin DOMAIN pout
              /\ "ritual" \in DOMAIN pout
              /\ pout.ritual = pin.ritual_name
        /\ pin.context = None =>
              pout = perform_ritual(pin.ritual_name, EmptyDict, pin.t)

\* perform_ritual has answered an unknown name
C9_UnknownNameAnswered ==
    /\ pin # None
    /\ pout # None
    /\ pin.op = "perform_ritual"
    /\ pin.ritual_name = <<"d","a","n","c","e">>
    /\ pin.context = None
    /\ "error" \in DOMAIN pout

\* C10 as stated: for an empty situation the matcher returns the first three
\* entries of the corpus, in corpus order, each with score 0.
C10_EmptySituationTopThree ==
    (pin # None /\ pout # None /\ pin.op = "get_wisdom_for_situation"
        /\ pin.situation = <<>>) =>
        /\ Len(pout.guidance) = 3
        /\ \A i \in 1..Len(pout.guidance) :
              /\ i <= Len(wisdom_database)
              /\ pout.guidance[i].wisdom = wisdom_database[i].wisdom
              /\ FracEq(pout.guidance[i].relevance_score, Frac(0, 1))

\* C11: the list the matcher returns has at most 3 entries, in order of
\* non-increasing relevance score, entries of equal score in corpus order,
\* and no corpus entry left out scores strictly higher than a returned one.
C11_TopThreeByScoreStable ==
    (pin # None /\ pout # None /\ pin.op = "get_wisdom_for_situation") =>
        /\ Len(pout.guidance) <= 3
        /\ \A i \in 1..Len(pout.guidance) :
              \E k \in 1..Len(wisdom_database) :
                  wisdom_database[k].wisdom = pout.guidance[i].wisdom
        /\ \A i \in 1..Len(pout.guidance), j \in 1..Len(pout.guidance) :
              i < j =>
                  /\ FracLe(pout.guidance[j].relevance_score,
                            pout.guidance[i].relevance_score)
                  /\ FracEq(pout.guidance[i].relevance_score,
                            pout.guidance[j].relevance_score) =>
                         (CHOOSE k \in 1..Len(wisdom_database) :
                              wisdom_database[k].wisdom = pout.guidance[i].wisdom)
                         < (CHOOSE k \in 1..Len(wisdom_database) :
                                wisdom_database[k].wisdom = pout.guidance[j].wisdom)
        /\ \A k \in 1..Len(wisdom_database) :
              (\A i \in 1..Len(pout.guidance) :
                   pout.guidance[i].wisdom # wisdom_database[k].wisdom) =>
                  \A i \in 1..Len(pout.guidance) :
                      ~FracLt(pout.guidance[i].relevance_score,
                              Frac(Cardinality(
                                       {n \in 1..Len(Split(Lower(pin.situation))) :
                                            Contains(Split(Lower(pin.situation))[n],
                                                     Lower(wisdom_database[k].wisdom))}),
                                   Len(Split(Lower(pin.situation)))))

\* the matcher has returned three entries of which a later one of the corpus
\* comes first, while more than three entries matched
C11_ReorderedAndTruncated ==
    /\ pin # None
    /\ pout # None
    /\ pin.op = "get_wisdom_for_situation"
    /\ Len(pout.guidance) = 3
    /\ pout.guidance[1].wisdom # wisdom_database[1].wisdom
    /\ FracLt(pout.guidance[3].relevance_score, pout.guidance[1].relevance_score)
    /\ FracEq(pout.guidance[2].relevance_score, pout.guidance[3].relevance_score)

\* C12: every entry the matcher returns has the score (number of query
\* keywords that are substrings of the lowercased entry text) / (number of
\* query keywords), which is strictly positive and at most 1; an entry that
\* matches no keyword is not returned.
C12_ScoreIsMatchedFraction ==
    (pin # None /\ pout # None /\ pin.op = "get_wisdom_for_situation") =>
        \A i \in 1..Len(pout.guidance) :
            /\ Len(Split(Lower(pin.situation))) > 0
            /\ FracEq(pout.guidance[i].relevance_score,
                      Frac(Cardinality(
                               {n \in 1..Len(Split(Lower(pin.situation))) :
                                    Contains(Split(Lower(pin.situation))[n],
                                             Lower(pout.guidance[i].wisdom))}),
                           Len(Split(Lower(pin.situation)))))
            /\ FracLt(Frac(0, 1), pout.guidance[i].relevance_score)
            /\ FracLe(pout.guidance[i].relevance_score, Frac(1, 1))

\* the matcher has returned entries that match a part of the keywords
C12_PartialMatchReturned ==
    /\ pin # None
    /\ pout # None
    /\ pin.op = "get_wisdom_for_situation"
    /\ Len(pout.guidance) >= 1
    /\ FracLt(pout.guidance[1].relevance_score, Frac(1, 1))
    /\ Len(Split(Lower(pin.situation))) >= 3

\* C13: _is_fibonacci_like returns true exactly when the sequence has at
\* least 3 elements and every element from the third on is the sum of the
\* two before it: false for every sequence shorter than 3, true for
\* [1,1,2,3,5,8], false for [1,1,2,4].
C13_AdditiveRecurrenceTest ==
    (pin # None /\ pout # None /\ pin.op = "_is_fibonacci_like") =>
        /\ pout.returned =
               (/\ Len(pin.sequence) >= 3
                /\ \A i \in 3..Len(pin.sequence) :
                      pin.sequence[i] = pin.sequence[i - 1] + pin.sequence[i - 2])
        /\ Len(pin.sequence) < 3 => pout.returned = FALSE
        /\ pin.sequence = <<1, 1, 2, 3, 5, 8>> => pout.returned = TRUE
        /\ pin.sequence = <<1, 1, 2, 4>> => pout.returned = FALSE

\* the test has answered true for [1,1,2,3,5,8]
C13_FibonacciAccepted ==
    /\ pin # None
    /\ pout # None
    /\ pin.op = "_is_fibonacci_like"
    /\ pin.sequence = <<1, 1, 2, 3, 5, 8>>
    /\ pout.returned = TRUE

\* C14: the sacred number that seek_guidance derives depends on the question
\* text alone and lies in 0..999: of two calls with the same question, at
\* whatever times, with whatever contexts and history, the wisdoms name the
\* same number, and the number every wisdom names is below 1000.
C14_SacredNumberOfQuestionAlone ==
    (pin # None /\ pout # None /\ pin.op = "seek_guidance") =>
        /\ \A i \in 1..2 :
              \E n \in 0..999 :
                  pout.revelation_history[i].meditation_focus =
                      <<"M","e","d","i","t","a","t","e"," ","o","n"," ","s","a","c","r","e","d"," ","n","u","m","b","e","r"," ">> \o IntToStr(n)
                          \o <<":"," ">> \o NumberMeaning(n)
        /\ pin.first.question = pin.second.question =>
              pout.revelation_history[1].meditation_focus =
                  pout.revelation_history[2].meditation_focus

\* two calls with one question whose three hex digits exceed 999, at
\* different times and with different contexts, have been answered
C14_SameQuestionTwice ==
    /\ pin # None
    /\ pout # None
    /\ pin.op = "seek_guidance"
    /\ pin.first.question = pin.second.question
    /\ pin.first.t # pin.second.t
    /\ pin.first.context # pin.second.context
    /\ IntBase16(Md5Hex3(pin.first.question)) >= 1000
    /\ pout.revelation_history[1].timestamp # pout.revelation_history[2].timestamp

\* C18: "golden_ratio_alignment" is a key of pattern_scores only when the
\* text has at least 2 ratios of consecutive block lengths (3 blocks), and
\* divine_alignment_score is the mean of the pattern_scores present, 0.0 when
\* there is none.
C18_GoldenScoreNeedsTwoRatios ==
    (pin # None /\ pout # None /\ pin.op = "analyze_code_for_divine_patterns") =>
        /\ "golden_ratio_alignment" \in DOMAIN pout.returned.pattern_scores =>
               Len(_extract_function_lengths(pin.code)) - 1 >= 2
        /\ FracEq(pout.returned.divine_alignment_score,
                  IF DOMAIN pout.returned.pattern_scores = {} THEN Frac(0, 1)
                  ELSE FracMean(PatternScoreValues(pout.returned.pattern_scores)))

\* C15: when the four component scores (pattern, scriptural, vibration,
\* guidance) all lie in [0,1], overall_divine_alignment is their arithmetic
\* mean, the overall value not being counted, and lies in [0,1].
C15_OverallIsMeanOfFour ==
    (pin # None /\ pout # None /\ pin.op = "_calculate_divine_alignment_score") =>
        ((\A score \in {pout.returned.pattern_alignment,
                        pout.returned.scriptural_alignment,
                        pout.returned.vibration_alignment,
                        pout.returned.guidance_alignment} :
              FracLe(Frac(0, 1), score) /\ FracLe(score, Frac(1, 1)))
         => /\ DOMAIN pout.returned =
                   {"pattern_alignment", "scriptural_alignment", "vibration_alignment",
                    "guidance_alignment", "overall_divine_alignment"}
            /\ FracNorm(4 * pout.returned.overall_divine_alignment.num,
                        pout.returned.overall_divine_alignment.den)
                   = FracAdd(FracAdd(pout.returned.pattern_alignment,
                                     pout.returned.scriptural_alignment),
                             FracAdd(pout.returned.vibration_alignment,
                                     pout.returned.guidance_alignment))
            /\ FracLe(Frac(0, 1), pout.returned.overall_divine_alignment)
            /\ FracLe(pout.returned.overall_divine_alignment, Frac(1, 1)))

\* scores have been computed from four different component scores in [0,1]
C15_FourDifferentScores ==
    /\ pin # None
    /\ pout # None
    /\ pin.op = "_calculate_divine_alignment_score"
    /\ pout.returned.pattern_alignment = Frac(4, 5)
    /\ FracLt(Frac(5, 10), pout.returned.scriptural_alignment)
    /\ pout.returned.vibration_alignment = Frac(1, 1)
    /\ pout.returned.guidance_alignment = Frac(3, 10)

\* C19: vibration_alignment is the harmony_score supplied, for every value
\* in [0,1], 0.0 included, and the default 0.5 only when harmony_score is
\* None.
C19_VibrationIsHarmonyScore ==
    (pin # None /\ pout # None /\ pin.op = "_calculate_divine_alignment_score") =>
        /\ (pin.harmony_score # None
            /\ FracLe(Frac(0, 1), pin.harmony_score)
            /\ FracLe(pin.harmony_score, Frac(1, 1))) =>
               FracEq(pout.returned.vibration_alignment, pin.harmony_score)
        /\ pin.harmony_score = None =>
               FracEq(pout.returned.vibration_alignment, Frac(5, 10))

\* C20: "Seek more divine patterns in code structure" is in the list exactly
\* when pattern_alignment < 0.6, "Meditate on scriptural wisdom before
\* coding" exactly when scriptural_alignment < 0.5, "Elevate code vibrations
\* through positive affirmations" exactly when vibration_alignment < 0.7, and
\* the list ends with 2 or 3 pairwise different entries of sacred_recs that
\* follow all the other entries.
C20_ThresholdsAndSample ==
    (pin # None /\ pout # None /\ pin.op = "_generate_sacred_recommendations") =>
        /\ (\E i \in 1..Len(pout.returned) :
                pout.returned[i] = <<"S","e","e","k"," ","m","o","r","e"," ","d","i","v","i","n","e"," ","p","a","t","t","e","r","n","s"," ","i","n"," ","c","o","d","e"," ","s","t","r","u","c","t","u","r","e">>)
             <=> FracLt(pin.alignment_scores.pattern_alignment, Frac(6, 10))
        /\ (\E i \in 1..Len(pout.returned) :
                pout.returned[i] = <<"M","e","d","i","t","a","t","e"," ","o","n"," ","s","c","r","i","p","t","u","r","a","l"," ","w","i","s","d","o","m"," ","b","e","f","o","r","e"," ","c","o","d","i","n","g">>)
             <=> FracLt(pin.alignment_scores.scriptural_alignment, Frac(5, 10))
        /\ (\E i \in 1..Len(pout.returned) :
                pout.returned[i] = <<"E","l","e","v","a","t","e"," ","c","o","d","e"," ","v","i","b","r","a","t","i","o","n","s"," ","t","h","r","o","u","g","h"," ","p","o","s","i","t","i","v","e"," ","a","f","f","i","r","m","a","t","i","o","n","s">>)
             <=> FracLt(pin.alignment_scores.vibration_alignment, Frac(7, 10))
        /\ \E k \in 2..3 :
              /\ Len(pout.returned) >= k
              /\ \A i \in 1..Len(pout.returned) :
                    (i > Len(pout.returned) - k)
                        <=> (\E n \in 1..Len(sacred_recs) : pout.returned[i] = sacred_recs[n])
              /\ \A i, j \in (Len(pout.returned) - k + 1)..Len(pout.returned) :
                    i # j => pout.returned[i] # pout.returned[j]

\* a list with no threshold entry (scores 0.6, 0.5, 0.7 on the thresholds)
\* and one with all three have been returned
C20_ScoresOnTheThresholds ==
    /\ pin # None
    /\ pout # None
    /\ pin.op = "_generate_sacred_recommendations"
    /\ pin.alignment_scores.pattern_alignment = Frac(6, 10)
    /\ pin.alignment_scores.scriptural_alignment = Frac(5, 10)
    /\ pin.alignment_scores.vibration_alignment = Frac(7, 10)
    /\ Len(pout.returned) = 3

\* C16: propose_divinely_guided_modification with seek_guidance does not
\* raise, whatever target_component and description: the scriptural guidance
\* of its question is never empty, so the first entry is there to read, also
\* when the words of target_component and description match no corpus entry.
C16_FirstScripturalEntryExists ==
    (pin # None /\ pout # None /\ pin.op = "propose_divinely_guided_modification") =>
        /\ "raised" \notin DOMAIN pout
        /\ Len(get_wisdom_for_situation(
                   <<"M","o","d","i","f","i","c","a","t","i","o","n"," ","f","o","r"," ">> \o pin.target_component \o <<":"," ">>
                       \o pin.description).guidance) >= 1
        /\ StartsWith(pout.returned, <<"S","c","r","i","p","t","u","r","a","l"," ","W","i","s","d","o","m",":"," ">>)
        /\ Len(pout.returned) > Len(<<"S","c","r","i","p","t","u","r","a","l"," ","W","i","s","d","o","m",":"," ">>)

\* the note has been written for a target_component and a description whose
\* own words match no corpus entry
C16_NoOwnWordMatches ==
    /\ pin # None
    /\ pout # None
    /\ pin.op = "propose_divinely_guided_modification"
    /\ pin.target_component # <<>>
    /\ pin.description # <<>>
    /\ get_wisdom_for_situation(pin.target_component \o <<":"," ">>
                                    \o pin.description).guidance = <<>>
    /\ "returned" \in DOMAIN pout

\* C17: a call of seek_divine_coding_guidance appends one entry to the
\* history and changes nothing else the caller can see: the stored practices
\* stay, and the context mapping the caller passed has the keys and values
\* it had before the call.
C17_SeekOnlyAppends ==
    [][\A t \in TaskIds :
          (tasks[t].pc # "seek_await" /\ tasks'[t].pc = "seek_await") =>
              /\ Len(ctrls'[tasks'[t].c].revelations_received)
                     = Len(ctrls[tasks'[t].c].revelations_received) + 1
              /\ SubSeq(ctrls'[tasks'[t].c].revelations_received, 1,
                        Len(ctrls[tasks'[t].c].revelations_received))
                     = ctrls[tasks'[t].c].revelations_received
              /\ ctrls'[tasks'[t].c].daily_practices = ctrls[tasks'[t].c].daily_practices
              /\ \E i \in 1..Len(Calls) :
                    /\ Calls[i].question = tasks'[t].question
                    /\ Calls[i].context = tasks'[t].context]_vars

\* C21: guidance_alignment is 0.3, 0.6, 0.8, 0.9, 1.0 for the five revelation
\* levels in their order, a strictly increasing table, and 0.5 for a level
\* that is absent or is none of the five; nothing is raised.
C21_GuidanceAlignmentTable ==
    (pin # None /\ pout # None /\ pin.op = "_calculate_divine_alignment_score") =>
        /\ "raised" \notin DOMAIN pout
        /\ \A n \in 1..5 :
              ("divine_wisdom" \in DOMAIN pin.guidance
               /\ pin.guidance.divine_wisdom.revelation_level = DivineRevelationLevel[n]) =>
                  pout.returned.guidance_alignment
                      = <<Frac(3, 10), Frac(6, 10), Frac(8, 10), Frac(9, 10), Frac(1, 1)>>[n]
        /\ ("divine_wisdom" \notin DOMAIN pin.guidance
            \/ \A n \in 1..5 : pin.guidance.divine_wisdom.revelation_level
                                   # DivineRevelationLevel[n]) =>
               pout.returned.guidance_alignment = Frac(5, 10)
        /\ \A n \in 1..4 :
              FracLt(<<Frac(3, 10), Frac(6, 10), Frac(8, 10), Frac(9, 10), Frac(1, 1)>>[n],
                     <<Frac(3, 10), Frac(6, 10), Frac(8, 10), Frac(9, 10), Frac(1, 1)>>[n + 1])

\* scores have been computed for a guidance whose level is none of the five
C21_UnrecognizedLevelScored ==
    /\ pin # None
    /\ pout # None
    /\ pin.op = "_calculate_divine_alignment_score"
    /\ "divine_wisdom" \in DOMAIN pin.guidance
    /\ pin.guidance.divine_wisdom.revelation_level = "unknown"
    /\ pout.returned.guidance_alignment = Frac(5, 10)

\* C22: for every sacred number in 0..999 the lookup by the number and the
\* lookup by the number mod 100 both answer: the entry of sacred_numbers when
\* the key is in the table, "Divine mystery" when it is not, and nothing is
\* raised.
C22_AnnotationLookupsTotal ==
    (pin # None /\ pout # None /\ pin.op = "seek_guidance_texts") =>
        /\ "raised" \notin DOMAIN pout
        /\ pout.meditation_focus =
               <<"M","e","d","i","t","a","t","e"," ","o","n"," ","s","a","c","r","e","d"," ","n","u","m","b","e","r"," ">> \o IntToStr(pin.sacred_number) \o <<":"," ">>
               \o (IF \E i \in 1..Len(sacred_numbers) :
                          sacred_numbers[i].number = pin.sacred_number
                   THEN sacred_numbers[CHOOSE i \in 1..Len(sacred_numbers) :
                            sacred_numbers[i].number = pin.sacred_number].meaning
                   ELSE <<"D","i","v","i","n","e"," ","m","y","s","t","e","r","y">>)
        /\ pout.message =
               pin.message_base \o <<"."," ","S","a","c","r","e","d"," ","n","u","m","b","e","r"," ">> \o IntToStr(pin.sacred_number)
               \o <<" ","w","h","i","s","p","e","r","s",":"," ">>
               \o (IF \E i \in 1..Len(sacred_numbers) :
                          sacred_numbers[i].number = pin.sacred_number % 100
                   THEN sacred_numbers[CHOOSE i \in 1..Len(sacred_numbers) :
                            sacred_numbers[i].number = pin.sacred_number % 100].meaning
                   ELSE <<"D","i","v","i","n","e"," ","m","y","s","t","e","r","y">>)

\* the texts have been written for a number that is in the table and whose
\* value mod 100 is not
C22_KeyPresentAndAbsent ==
    /\ pin # None
    /\ pout # None
    /\ pin.op = "seek_guidance_texts"
    /\ pin.sacred_number = 888
    /\ Contains(<<"w","h","i","s","p","e","r","s",":"," ","D","i","v","i","n","e"," ","m","y","s","t","e","r","y">>, pout.message)
    /\ Contains(<<"8","8","8",":"," ","J","e","s","u","s"," ","-"," ","s","a","l","v","a","t","i","o","n"," ","a","n","d"," ","r","e","d","e","m","p","t","i","o","n">>, pout.meditation_focus)

\* C29: the annotation quoted in the message of a wisdom and the annotation in
\* its meditation_focus are the same annotation of the same sacred number.
C29_SameAnnotationInBothTexts ==
    (pin # None /\ pout # None /\ pin.op = "seek_guidance_texts") =>
        \E annotation \in {sacred_numbers[i].meaning : i \in 1..Len(sacred_numbers)}
                              \cup {<<"D","i","v","i","n","e"," ","m","y","s","t","e","r","y">>} :
            /\ pout.message =
                   pin.message_base \o <<"."," ","S","a","c","r","e","d"," ","n","u","m","b","e","r"," ">> \o IntToStr(pin.sacred_number)
                   \o <<" ","w","h","i","s","p","e","r","s",":"," ">> \o annotation
            /\ pout.meditation_focus =
                   <<"M","e","d","i","t","a","t","e"," ","o","n"," ","s","a","c","r","e","d"," ","n","u","m","b","e","r"," ">> \o IntToStr(pin.sacred_number)
                   \o <<":"," ">> \o annotation

\* C23: in the report the most common level and the most common principle
\* have the highest count, and among the keys with that count the one whose
\* first revelation is the earliest of the history.
C23_FirstInsertedKeyWinsTies ==
    (pin # None /\ pout # None /\ pin.op = "get_divine_insights_report") =>
        LET history == ReportHistory(pin.kinds, pin.times)
            N == Len(history)
            LevelAt(i) == history[i].revelation_level
            PrincipleAt(i) == history[i].principles[1]
            level == pout.most_common_revelation_level.level
            principle == pout.most_common_principle.principle
            LevelCount(l) == Cardinality({i \in 1..N : LevelAt(i) = l})
            PrincipleCount(p) == Cardinality({i \in 1..N : PrincipleAt(i) = p})
            FirstLevel(l) == CHOOSE i \in 1..N :
                                 LevelAt(i) = l /\ \A j \in 1..(i - 1) : LevelAt(j) # l
            FirstPrinciple(p) == CHOOSE i \in 1..N :
                                     PrincipleAt(i) = p
                                     /\ \A j \in 1..(i - 1) : PrincipleAt(j) # p
        IN  /\ \E i \in 1..N : LevelAt(i) = level
            /\ pout.most_common_revelation_level.count = LevelCount(level)
            /\ \A i \in 1..N :
                  /\ LevelCount(LevelAt(i)) <= LevelCount(level)
                  /\ LevelCount(LevelAt(i)) = LevelCount(level) =>
                         FirstLevel(level) <= FirstLevel(LevelAt(i))
            /\ \E i \in 1..N : PrincipleAt(i) = principle
            /\ pout.most_common_principle.count = PrincipleCount(principle)
            /\ \A i \in 1..N :
                  /\ PrincipleCount(PrincipleAt(i)) <= PrincipleCount(principle)
                  /\ PrincipleCount(PrincipleAt(i)) = PrincipleCount(principle) =>
                         FirstPrinciple(principle) <= FirstPrinciple(PrincipleAt(i))

\* a report of four revelations, two of each level and two of each
\* principle, where the level and the principle of the first revelation
\* (spiritual_insight, infinite_wisdom) are not those of the last
C23_TiedLevelsAndPrinciples ==
    /\ pin # None
    /\ pout # None
    /\ pin.op = "get_divine_insights_report"
    /\ pin.kinds = <<2, 1, 2, 1>>
    /\ pout.most_common_revelation_level.count = 2
    /\ pout.most_common_revelation_level.level = "spiritual_insight"
    /\ pout.most_common_principle.count = 2
    /\ pout.most_common_principle.principle = "infinite_wisdom"

\* C24: for N >= 1 revelations recent_insights has min(5, N) entries, the
\* revelations with the latest timestamps, latest first; the question of an
\* entry is the revelation's question when that has at most 100 characters,
\* else its first 100 characters and "...", and the guidance likewise with
\* 150.
C24_RecentFiveLatestFirstShortened ==
    (pin # None /\ pout # None /\ pin.op = "get_divine_insights_report") =>
        LET history == ReportHistory(pin.kinds, pin.times)
            N == Len(history)
            recent == pout.recent_insights
            K == Len(recent)
            Cut(text, limit) ==
                IF Len(text) <= limit THEN text
                ELSE [i \in 1..(limit + 3) |-> IF i <= limit THEN text[i] ELSE "."]
            Entry(j) == [time |-> history[j].timestamp,
                         question |-> Cut(history[j].question, 100),
                         guidance |-> Cut(history[j].guidance_received, 150),
                         level |-> history[j].revelation_level]
        IN  /\ K = IF N < 5 THEN N ELSE 5
            /\ \A i \in 1..(K - 1) : ~StrLt(recent[i].time, recent[i + 1].time)
            /\ \A i \in 1..K :
                  Cardinality({k \in 1..K : recent[k] = recent[i]})
                      <= Cardinality({j \in 1..N : Entry(j) = recent[i]})
            /\ \A j \in 1..N :
                  StrLt(recent[K].time, history[j].timestamp) =>
                      Cardinality({k \in 1..K : recent[k] = Entry(j)})
                          = Cardinality({i \in 1..N : Entry(i) = Entry(j)})

\* a report of six revelations of two clock values, with a question of 101
\* characters and a guidance of 151 characters among the five reported
C24_SixRevelationsLongTexts ==
    /\ pin # None
    /\ pout # None
    /\ pin.op = "get_divine_insights_report"
    /\ Len(pin.kinds) = 6
    /\ pin.times[1] # pin.times[6]
    /\ Len(pout.recent_insights) = 5
    /\ \E i \in 1..5 : Len(pout.recent_insights[i].question) = 103
    /\ \E i \in 1..5 : Len(pout.recent_insights[i].guidance) = 153
    /\ \E i \in 1..5 : Len(pout.recent_insights[i].question) = 100
    /\ \E i \in 1..5 : Len(pout.recent_insights[i].guidance) = 150

\* C25: in every report of a history that is not empty the counts of
\* insights_by_level add up to total_insights, the counts of
\* principles_applied add up to total_insights, and the percentage of the
\* most common level and of the most common principle is its count divided
\* by total_insights, above 0 and at most 1, with a divisor that is not 0.
C25_CountsAddUpToTotal ==
    \A report \in {r \in {IF report_log # None THEN report_log.report ELSE EmptyPayload,
                          IF request_report # None THEN request_report.report
                          ELSE EmptyPayload} : "total_insights" \in DOMAIN r} :
        /\ report.total_insights >= 1
        /\ SumCounts(report.insights_by_level) = report.total_insights
        /\ SumCounts(report.principles_applied) = report.total_insights
        /\ \A share \in {[count |-> report.most_common_revelation_level.count,
                          percentage |-> report.most_common_revelation_level.percentage],
                         [count |-> report.most_common_principle.count,
                          percentage |-> report.most_common_principle.percentage]} :
              /\ share.percentage.den # 0
              /\ FracEq(share.percentage, Frac(share.count, report.total_insights))
              /\ FracLt(Frac(0, 1), share.percentage)
              /\ FracLe(share.percentage, Frac(1, 1))

\* a report of two revelations of one level has been made
C25_ReportOfTwoOfOneLevel ==
    /\ report_log # None
    /\ "total_insights" \in DOMAIN report_log.report
    /\ report_log.report.total_insights = 2
    /\ Len(report_log.report.insights_by_level) = 1
    /\ report_log.report.most_common_revelation_level.count = 2

\* C26: the level of a wisdom follows the rules in their order ("why" in a
\* question of more than 50 characters, then "how" with "complex" in the
\* text of the context, then "what" in a question of more than 30
\* characters, else the lowest level), it is never cosmic_consciousness, and
\* the guidance_alignment of a review of such a guidance is never 1.0.
C26_LevelByRulesNeverCosmic ==
    (pin # None /\ pout # None /\ pin.op = "_determine_revelation_level") =>
        LET question == Lower(pin.question)
            context == Lower(DictStr(LevelContexts[pin.context]))
            why == Contains(<<"w","h","y">>, question) /\ Len(pin.question) >= 51
            how == Contains(<<"h","o","w">>, question) /\ Contains(<<"c","o","m","p","l","e","x">>, context)
            what == Contains(<<"w","h","a","t">>, question) /\ Len(pin.question) >= 31
        IN  /\ why => pout.revelation_level = "mystical_knowledge"
            /\ (~why /\ how) => pout.revelation_level = "divine_revelation"
            /\ (~why /\ ~how /\ what) => pout.revelation_level = "spiritual_insight"
            /\ (~why /\ ~how /\ ~what) => pout.revelation_level = "human_understanding"
            /\ pout.revelation_level # "cosmic_consciousness"
            /\ pout.revelation_level \in {DivineRevelationLevel[i] : i \in 1..4}
            /\ ~FracEq(pout.guidance_alignment, Frac(1, 1))
            /\ FracLe(pout.guidance_alignment, Frac(9, 10))

\* a question of more than 50 characters with all three keywords and a
\* context with "complex" has got the level of the first rule
C26_AllRulesApplyFirstWins ==
    /\ pin # None
    /\ pout # None
    /\ pin.op = "_determine_revelation_level"
    /\ Contains(<<"w","h","y">>, Lower(pin.question))
    /\ Contains(<<"h","o","w">>, Lower(pin.question))
    /\ Contains(<<"w","h","a","t">>, Lower(pin.question))
    /\ Len(pin.question) > 50
    /\ Contains(<<"c","o","m","p","l","e","x">>, Lower(DictStr(LevelContexts[pin.context])))
    /\ pout.revelation_level = "mystical_knowledge"
    /\ pout.guidance_alignment = Frac(9, 10)

\* C27: the ritual of a composite guidance is the registered ritual of the
\* first keyword group found in the lower-cased question (morning, blessing,
\* debugging, completion, evening), or code_blessing when none is found, so
\* its "ritual" field is a performed ritual and never an error record.
C27_SelectedRitualRegistered ==
    (pin # None /\ pout # None /\ pin.op = "_select_ritual_for_question") =>
        LET question == Lower(pin.question)
            Has(words) == \E w \in words : Contains(w, question)
            morning == Has({<<"m","o","r","n","i","n","g">>, <<"s","t","a","r","t">>, <<"b","e","g","i","n">>, <<"n","e","w">>})
            blessing == Has({<<"b","l","e","s","s">>, <<"c","o","n","s","e","c","r","a","t","e">>, <<"d","e","d","i","c","a","t","e">>})
            debugging == Has({<<"p","r","o","b","l","e","m">>, <<"b","u","g">>, <<"e","r","r","o","r">>, <<"d","e","b","u","g">>, <<"f","i","x">>})
            completion == Has({<<"c","o","m","p","l","e","t","e">>, <<"f","i","n","i","s","h">>, <<"d","o","n","e">>, <<"a","c","c","o","m","p","l","i","s","h">>})
            evening == Has({<<"e","v","e","n","i","n","g">>, <<"e","n","d">>, <<"r","e","f","l","e","c","t">>, <<"r","e","v","i","e","w">>})
        IN  /\ "error" \notin DOMAIN pout.ritual
            /\ "raised" \notin DOMAIN pout.ritual
            /\ "ritual" \in DOMAIN pout.ritual
            /\ pout.ritual.ritual \in
                   {<<"m","o","r","n","i","n","g","_","d","e","d","i","c","a","t","i","o","n">>, <<"c","o","d","e","_","b","l","e","s","s","i","n","g">>, <<"d","e","b","u","g","g","i","n","g","_","m","e","d","i","t","a","t","i","o","n">>,
                    <<"c","o","m","p","l","e","t","i","o","n","_","t","h","a","n","k","s","g","i","v","i","n","g">>, <<"e","v","e","n","i","n","g","_","r","e","f","l","e","c","t","i","o","n">>}
            /\ pout.ritual.ritual \in ritual_steps
            /\ morning => pout.ritual.ritual = <<"m","o","r","n","i","n","g","_","d","e","d","i","c","a","t","i","o","n">>
            /\ (~morning /\ blessing) => pout.ritual.ritual = <<"c","o","d","e","_","b","l","e","s","s","i","n","g">>
            /\ (~morning /\ ~blessing /\ debugging) =>
                   pout.ritual.ritual = <<"d","e","b","u","g","g","i","n","g","_","m","e","d","i","t","a","t","i","o","n">>
            /\ (~morning /\ ~blessing /\ ~debugging /\ completion) =>
                   pout.ritual.ritual = <<"c","o","m","p","l","e","t","i","o","n","_","t","h","a","n","k","s","g","i","v","i","n","g">>
            /\ (~morning /\ ~blessing /\ ~debugging /\ ~completion /\ evening) =>
                   pout.ritual.ritual = <<"e","v","e","n","i","n","g","_","r","e","f","l","e","c","t","i","o","n">>
            /\ (~morning /\ ~blessing /\ ~debugging /\ ~completion /\ ~evening) =>
                   pout.ritual.ritual = <<"c","o","d","e","_","b","l","e","s","s","i","n","g">>

\* the ritual of a question with no keyword of any group has been performed
C27_FallbackRitualPerformed ==
    /\ pin # None
    /\ pout # None
    /\ pin.op = "_select_ritual_for_question"
    /\ pin.question = <<"G","u","i","d","e"," ","m","y"," ","w","o","r","k">>
    /\ pout.ritual.ritual = <<"c","o","d","e","_","b","l","e","s","s","i","n","g">>
    /\ "blessing_prayer" \in DOMAIN pout.ritual

\* C28: every record of daily_practices stored under the key of a calendar
\* date has a "date" field of that calendar date, whatever the clock does
\* between the reads of one initialize_daily_practice.
C28_CachedDateIsItsKey ==
    \A c \in CtrlIds :
        ctrls[c] # None =>
            \A d \in DOMAIN ctrls[c].daily_practices :
                SubSeq(ctrls[c].daily_practices[d].date, 1, 10) = d

\* C30: every block length recorded for a text is at least 1, so no ratio
\* is left out for a previous length of 0: the ratios are one fewer than the
\* recorded blocks, each the quotient of a length and the length before it.
C30_RecordedLengthsPositive ==
    (pin # None /\ pout # None /\ pin.op = "_extract_function_lengths") =>
        /\ \A n \in 1..Len(pout.function_lengths) : pout.function_lengths[n] >= 1
        /\ Len(pout.function_lengths) >= 1 =>
               Len(pout.ratios) = Len(pout.function_lengths) - 1
        /\ Len(pout.function_lengths) = 0 => Len(pout.ratios) = 0
        /\ \A n \in 1..Len(pout.ratios) :
               /\ pout.ratios[n].den = pout.function_lengths[n]
               /\ pout.ratios[n].num = pout.function_lengths[n + 1]
               /\ pout.ratios[n].den # 0

\* the lengths of a text with a block of no line between two blocks of 1 and
\* 2 lines, and a last block of blank lines only
C30_EmptyBlocksNotRecorded ==
    /\ pin # None
    /\ pout # None
    /\ pin.op = "_extract_function_lengths"
    /\ Contains(<<"d","e","f"," ","g","(",")",":","\n","d","e","f"," ","h","(",")",":">>, pin.code)
    /\ pout.function_lengths = <<1, 2>>
    /\ Len(pout.ratios) = 1

====
